---- MODULE Spec2Model ----
(***************************************************************************)
(* terminedia: the event queue, the Subscription registry and the          *)
(* dispatcher process() of src/terminedia/events.py.                        *)
(*                                                                          *)
(* Events and subscriptions are heap objects: an event is its serial        *)
(* number e (its type is evtype[e]), a subscription its serial number s.    *)
(* An event type is the integer value of the flag, a composite the sum of   *)
(* its flags.  process() is followed step by step (one step of the deque    *)
(* iterator, one step of the list iterator), because the callbacks it calls *)
(* run inside it and may enqueue events, kill or create subscriptions.      *)
(*                                                                          *)
(* The specifications share the variables, each leaving alone what it does  *)
(* not model: Spec (the dispatcher), SpecPull and SpecPullLive (async       *)
(* iteration of a pull-mode subscription, followed through its suspension), *)
(* SpecTick (the tick of an Event), SpecTransform, SpecBind and             *)
(* SpecContainer (Transformer and TransformersContainer of                  *)
(* src/terminedia/transformers.py: the pipeline, the arguments of the       *)
(* channel callables, the container as a list), SpecWidget (one Widget of   *)
(* src/terminedia/widgets.py, its keys and its await), SpecSignal and       *)
(* SpecSigwinch (the SIGWINCH handler and its registration), SpecReactor    *)
(* (the widgets of a WidgetEventReactor and the focus), SpecLines (the soft *)
(* lines of an Editable) and SpecSelector (the row of a Selector).          *)
(***************************************************************************)
EXTENDS Integers, Sequences, FiniteSets, TLC

\* ------------------------------------------------------------------ bounds
MaxSubs == 2
MaxEvents == 2
MaxQueue == 2
MaxPull == 2
MaxTick == 6
MaxSent == 3
MaxTransformers == 2
MaxStack == 2
MaxKills == 2

\* --------------------------------------------------------- EventTypes flags
Tick == 1
KeyPress == 2
MouseClick == 64

EventTypes == {1, 2, 4, 8, 16, 32, 64, 128, 256, 512}

\* The types subscriptions are created with, and the types events carry.
SubTypeInputs == {Tick, KeyPress + MouseClick}
EventTypeInputs == {KeyPress, MouseClick, Tick, KeyPress + Tick}

VARIABLES
    evtype,         \* evtype[e]: the type of the e-th Event constructed
    event_queue,    \* _event_queue: the deque of queued events
    types,          \* types[s]: Subscription.types
    callback,       \* callback[s]: TRUE when the subscription has a callback
    queue,          \* queue[s]: Subscription.queue, the pull queue
    terminated,     \* terminated[s]: Subscription.terminated
    subscriptions,  \* Subscription.subscriptions: flag -> list of subscriptions
    pc,             \* where process() stands: idle, events, subs, clear, done
    qi,             \* events the deque iterator has yielded in this pass
    si,             \* index the list iterator of the current event stands at
    cur,            \* type of the event the inner loop runs for (0: none yet)
    snap,           \* history: the queue when the running pass began
    regChanged,     \* history: the registry was changed during the running pass
    delivered,      \* history: the deliveries of the running pass
    enqueued,       \* history: an event was enqueued during the running pass
    prioritized,    \* history: the subscription prioritize() was last called on
    err,            \* the exception the last call ended with, or "none"
    apc,            \* where the consumer iterating subscription 1 stands
    yielded,        \* history: the events its __anext__ has returned
    sent,           \* history: the events dispatched for one of its types
    polled,         \* history: the wake of the consumer polled the terminal
    curtick,        \* the global logical-tick counter
    tickarg,        \* the tick passed to the last Event(): <<>> or <<tick>>
    etick,          \* the .tick of the Event constructed last
    tf,             \* tf[t]: the t-th Transformer constructed
    stack,          \* TransformersContainer.stack: a list of Transformers
    top,            \* the operation made last on the transformers
    targ,           \* the channel arguments of the last Transformer(...)
    tsource,        \* the source given to the last process()
    tpos,           \* the position given to the last process()
    tin,            \* the pixel given to the last process()
    calls,          \* history: the channel callables the run reached
    trace,          \* history: per Transformer of the run, pixel in and out
    tout,           \* the pixel the last process() returned
    terr,           \* the exception the last operation ended with, or "none"
    last,           \* history: the process() call before, for comparison
    wclass,         \* the class of the widget, "none" before it is constructed
    cancellable,    \* Widget.cancellable
    esc_callbacks,  \* Widget.esc_callbacks
    focus,          \* WidgetEventReactor.focus: the widget or 0 for None
    done,           \* Widget.done, FALSE also while the attribute is not set
    wterminated,    \* Widget.terminated
    cancelled,      \* Widget.cancelled, FALSE also while it is not set
    value,          \* the text of the widget's Editable
    kills,          \* history: the calls of Widget.kill
    aw,             \* where `await widget` stands: none, waiting, returned, raised
    aresult,        \* what the await returned or raised
    lastkey,        \* history: the key of the last key press
    ran,            \* history: the callbacks the last key press called
    has_sigwinch,   \* the platform's signal module has SIGWINCH
    sigwinch,       \* signal.getsignal(SIGWINCH): the installed handler
    sigwinch_counter,   \* _sigwinch_counter
    original_sigwinch,  \* _original_sigwinch
    first_sigwinch, \* history: the handler installed before any registration
    nwidgets,       \* the widgets constructed so far are 1..nwidgets
    registry,       \* WidgetEventReactor.registry: its keys, in their order
    focus_order,    \* WidgetEventReactor.focus_order
    last_focused_index, \* WidgetEventReactor.last_focused_index
    reactor_focus,  \* WidgetEventReactor._focus: a widget, or 0 for None
    transformers,   \* transformers[w]: widget w's sprite.transformers
    wsubscriptions, \* wsubscriptions[w]: widget w's .subscriptions
    wdone,          \* wdone[w]: widget w's .done, FALSE also while not set
    wterm,          \* wterm[w]: widget w's .terminated
    wkills,         \* history: wkills[w] counts the calls of w.kill()
    subkills,       \* history: subkills[s] counts the calls of s.kill()
    rerr,           \* the exception the last widget operation ended with
    ring,           \* history: the focus along successive focus_next calls
    soft_lines,     \* Lines.soft_lines: a list of strings
    raw_value,      \* Editable.raw_value
    last_event,     \* Lines._last_event: its line, index and tick
    edit_tick,      \* Editable.tick
    lerr,           \* the exception the last keypress met in Lines, or "none"
    lbefore,        \* history: soft_lines and raw_value before that keypress
    str_options,    \* Selector.str_options: the option texts, one per row
    has_border,     \* Selector.has_border: 0 or 1
    selected_row,   \* Selector.selected_row
    seldone,        \* Selector.done, FALSE also while the attribute is not set
    selvalue        \* what Selector.value gave when last read, or "KeyError"

\* The dispatcher and its registry.
evars == <<evtype, event_queue, types, callback, queue, terminated,
           subscriptions, pc, qi, si, cur, snap, regChanged, delivered,
           enqueued, prioritized, err>>

\* The consumer of a pull-mode subscription.
pullv == <<apc, yielded, sent, polled>>

\* The tick of an Event.
tickv == <<curtick, tickarg, etick>>

\* The transformers.
tfv == <<tf, stack, top, targ, tsource, tpos, tin, calls, trace, tout, terr,
        last>>

\* What the dispatcher's operations leave alone.
\* The widget.
wv == <<wclass, cancellable, esc_callbacks, focus, done, wterminated, cancelled,
       value, kills, aw, aresult, lastkey, ran>>

\* The SIGWINCH registration.
sigv == <<has_sigwinch, sigwinch, sigwinch_counter, original_sigwinch,
         first_sigwinch>>

\* The reactor and its widgets.
reactv == <<nwidgets, registry, focus_order, last_focused_index, reactor_focus,
           transformers, wsubscriptions, wdone, wterm, wkills, subkills, rerr,
           ring>>

\* The soft lines of an Editable.
linesv == <<soft_lines, raw_value, last_event, edit_tick, lerr, lbefore>>

\* The Selector.
selv == <<str_options, has_border, selected_row, seldone, selvalue>>

\* The sections after the widget.
later == <<sigv, reactv, linesv, selv>>

\* What the operations of one of these sections leave alone.
base == <<pullv, tickv, tfv, wv>>
notsig == <<base, reactv, linesv, selv>>
notreact == <<base, sigv, linesv, selv>>
notlines == <<base, sigv, reactv, selv>>
notsel == <<base, sigv, reactv, linesv>>

ext == <<pullv, tickv, tfv, wv, later>>

vars == <<evars, ext>>

heap == <<evtype, types, callback, queue, terminated>>
passv == <<pc, qi, si, cur, snap, regChanged, delivered, enqueued>>

Subs == 1..Len(types)
Events == 1..Len(evtype)

Range(f) == {f[i] : i \in DOMAIN f}

\* ----------------------------------------------------------- IterableFlag
HasFlag(t, f) == (t \div f) % 2 = 1

FlagsOf(t) == {f \in EventTypes : HasFlag(t, f)}

RECURSIVE SetToSeq(_)
SetToSeq(S) ==
    IF S = {} THEN <<>>
    ELSE LET m == CHOOSE x \in S : \A y \in S : x <= y
         IN <<m>> \o SetToSeq(S \ {m})

\* Iterating a flag value: its atomic flags, in definition order.
FlagSeq(t) == SetToSeq(FlagsOf(t))

\* --------------------------------------------------------------- the lists
RemoveFirst(seq, x) ==
    LET i == CHOOSE k \in 1..Len(seq) : seq[k] = x /\ \A j \in 1..(k-1) : seq[j] # x
    IN SubSeq(seq, 1, i-1) \o SubSeq(seq, i+1, Len(seq))

\* Variant: the subscription is put at the front of the list.
SetDefaultPrepend(reg, f, s) ==
    IF f \in DOMAIN reg THEN [reg EXCEPT ![f] = <<s>> \o @]
    ELSE reg @@ (f :> <<s>>)

SetDefaultAppend(reg, f, s) ==
    IF f \in DOMAIN reg THEN [reg EXCEPT ![f] = Append(@, s)]
    ELSE reg @@ (f :> <<s>>)

RECURSIVE RegisterLoop(_, _, _)
RegisterLoop(reg, s, fs) ==
    IF fs = <<>> THEN reg
    ELSE RegisterLoop(SetDefaultAppend(reg, Head(fs), s), s, Tail(fs))

\* Variant: the loop over the flags stops after the first flag.
RegisterFirstFlag(reg, s, t) == RegisterLoop(reg, s, SubSeq(FlagSeq(t), 1, 1))

\* Subscription.__init__, lines 79-80: register under every flag of the type.
Register(reg, s, t) == RegisterLoop(reg, s, FlagSeq(t))

\* Subscription.kill, lines 108-109: the loop stops at the first list that
\* does not hold the subscription (list.remove raises ValueError).
RECURSIVE KillLoop(_, _, _)
KillLoop(reg, s, fs) ==
    IF fs = <<>> THEN [reg |-> reg, ok |-> TRUE]
    ELSE LET f == Head(fs)
         IN IF f \notin DOMAIN reg \/ s \notin Range(reg[f])
            THEN [reg |-> reg, ok |-> FALSE]
            ELSE KillLoop([reg EXCEPT ![f] = RemoveFirst(@, s)], s, Tail(fs))

Unregister(reg, s, t) == KillLoop(reg, s, FlagSeq(t))

\* Variant: no filter by type, every live subscription is returned.
list_subscriptions_unfiltered(type_) ==
    SelectSeq([i \in 1..Len(types) |-> i], LAMBDA s : ~terminated[s])

\* list_subscriptions: the list under the key type_, or an empty default.
list_subscriptions(type_) ==
    IF type_ \in DOMAIN subscriptions THEN subscriptions[type_] ELSE <<>>

\* ------------------------------------------- pixels and channel slots
\* Transformer.channels
channels == <<"char", "foreground", "background", "effects">>

ChannelSet == Range(channels)

Black == <<0, 0, 0>>
Red == <<255, 0, 0>>

\* The value of each kind that Python takes for false: '', () and 0.
Falsy(ch) == IF ch = "char" THEN "" ELSE IF ch = "effects" THEN 0 ELSE <<>>

\* A channel slot holds None, a constant or a callable (named by f).
NoneSlot(ch) == [kind |-> "none", v |-> Falsy(ch), f |-> ""]
Const(v) == [kind |-> "const", v |-> v, f |-> ""]
Fn(ch, f) == [kind |-> "call", v |-> Falsy(ch), f |-> f]

\* The callables: hash() returns '#', upper(value) returns value.upper(),
\* swap(background) returns the background.
SlotInputs(ch) ==
    {NoneSlot(ch)} \cup
    (IF ch = "char"
     THEN {Const(""), Const("#"), Fn(ch, "hash"), Fn(ch, "upper")}
     ELSE IF ch = "foreground" THEN {Const(Red), Fn(ch, "swap")}
     ELSE IF ch = "background" THEN {}
     ELSE {Const(0)})

\* The channel arguments of Transformer(...).
TransformerInputs ==
    {[char |-> c, foreground |-> f, background |-> b, effects |-> e] :
        c \in SlotInputs("char"), f \in SlotInputs("foreground"),
        b \in SlotInputs("background"), e \in SlotInputs("effects")}

NoSlots == [ch \in ChannelSet |-> NoneSlot(ch)]

NoPixel == [char |-> "", foreground |-> <<>>, background |-> <<>>, effects |-> 0]

PixelInputs ==
    {[char |-> "x", foreground |-> Black, background |-> Black, effects |-> 0],
     [char |-> "a", foreground |-> Black, background |-> Red, effects |-> 1]}

\* The positions process() is called with.
Origin == <<0, 0>>
PosInputs == {Origin, <<2, 1>>}

\* The source of process(): a shape that has a context attribute, or one
\* that has none.
Shape == [has_context |-> TRUE, context |-> "context"]
Bare == [has_context |-> FALSE, context |-> ""]
SourceInputs == {Shape, Bare}

\* No call of process() is on record.
NoLast ==
    [valid |-> FALSE, state |-> <<>>, source |-> Bare, pos |-> Origin,
     pixel |-> NoPixel, out |-> NoPixel, err |-> "none",
     repeated |-> FALSE, differed |-> FALSE]

\* ------------------------------------------------------------------- Init
\* Nothing is iterated, no Event was given a tick.
PullInit ==
    /\ apc = "none"
    /\ yielded = <<>>
    /\ sent = <<>>
    /\ polled = FALSE

TickInit ==
    /\ curtick = 0
    /\ tickarg = <<>>
    /\ etick = 0

\* No Transformer is constructed, the container is empty.
TransformInit ==
    /\ tf = <<>>
    /\ stack = <<>>
    /\ top = "none"
    /\ targ = NoSlots
    /\ tsource = Bare
    /\ tpos = Origin
    /\ tin = NoPixel
    /\ calls = <<>>
    /\ trace = <<>>
    /\ tout = NoPixel
    /\ terr = "none"
    /\ last = NoLast

\* No widget is constructed.
WidgetsInit ==
    /\ wclass = "none"
    /\ cancellable = FALSE
    /\ esc_callbacks = <<>>
    /\ focus = 0
    /\ done = FALSE
    /\ wterminated = FALSE
    /\ cancelled = FALSE
    /\ value = ""
    /\ kills = 0
    /\ aw = "none"
    /\ aresult = ""
    /\ lastkey = ""
    /\ ran = <<>>

\* The handlers a process can have for SIGWINCH when the module is imported:
\* the default, SIG_IGN, one installed from C (getsignal gives None), or a
\* callable of the application.
HandlerInputs == {"SIG_DFL", "SIG_IGN", "None", "user_handler"}

\* Lines 20-21, in a process whose handler for SIGWINCH is h.
SigwinchImported(posix, h) ==
    /\ has_sigwinch = posix
    /\ sigwinch = h
    /\ sigwinch_counter = 0
    /\ original_sigwinch = "None"
    /\ first_sigwinch = h

SigwinchInit == SigwinchImported(TRUE, "SIG_DFL")

MaxWidgets == 3

Widgets == 1..MaxWidgets

\* WidgetEventReactor.__init__, lines 612-618, and no widget constructed.
ReactorInit ==
    /\ nwidgets = 0
    /\ registry = <<>>
    /\ focus_order = <<>>
    /\ last_focused_index = 0
    /\ reactor_focus = 0
    /\ transformers = [w \in Widgets |-> <<>>]
    /\ wsubscriptions = [w \in Widgets |-> <<>>]
    /\ wdone = [w \in Widgets |-> FALSE]
    /\ wterm = [w \in Widgets |-> FALSE]
    /\ wkills = [w \in Widgets |-> 0]
    /\ subkills = <<>>
    /\ rerr = "none"
    /\ ring = <<>>

\* The text plane of the Editable: HardLines rows of Width cells, one flow.
HardLines == 3
Width == 2

Spaces(n) == [i \in 1..n |-> " "]

NoEvent == [line |-> 0 - 1, index |-> 0 - 1, tick |-> 0 - 1]

\* Editable.__init__ with value "": build_value_indexes (line 472) and
\* Lines.__init__, _reload (lines 176-179, 195-200).
LinesInit ==
    /\ soft_lines = [i \in 1..HardLines |-> <<>>]
    /\ raw_value = Spaces(HardLines * Width + 1)
    /\ last_event = NoEvent
    /\ edit_tick = 0
    /\ lerr = "none"
    /\ lbefore = <<soft_lines, raw_value>>

\* Selector.__init__, lines 962-999, with the list opts of option texts and
\* selected_row left at its default 0.
SelectorConstructed(opts, border) ==
    /\ str_options = opts
    /\ has_border = IF border THEN 1 ELSE 0
    /\ selected_row = 0
    /\ seldone = FALSE
    /\ selvalue = "none"

SelectorInit == SelectorConstructed(<<"a", "b">>, FALSE)

LaterInit ==
    /\ SigwinchInit
    /\ ReactorInit
    /\ LinesInit
    /\ SelectorInit

ExtInit ==
    /\ PullInit
    /\ TickInit
    /\ TransformInit
    /\ WidgetsInit
    /\ LaterInit

DispatcherInit ==
    /\ evtype = <<>>
    /\ event_queue = <<>>
    /\ types = <<>>
    /\ callback = <<>>
    /\ queue = <<>>
    /\ terminated = <<>>
    /\ subscriptions = <<>>
    /\ pc = "idle"
    /\ qi = 0
    /\ si = 0
    /\ cur = 0
    /\ snap = <<>>
    /\ regChanged = FALSE
    /\ delivered = <<>>
    /\ enqueued = FALSE
    /\ prioritized = 0
    /\ err = "none"

Init ==
    /\ DispatcherInit
    /\ ExtInit

\* ------------------------------------------------- operations on the heap
\* Event.__init__: the new event is the next serial number; with dispatch it
\* is appended to the queue (line 62 calls dispatch).
NewEvent(t, d) ==
    /\ Len(evtype) < MaxEvents
    /\ d => Len(event_queue) < MaxQueue
    /\ evtype' = Append(evtype, t)
    /\ event_queue' = IF d THEN Append(event_queue, Len(evtype) + 1)
                      ELSE event_queue

\* Variant: an event that is already queued is not queued again.
EnqueueOnce(e) ==
    /\ Len(event_queue) < MaxQueue
    /\ event_queue' = IF e \in Range(event_queue) THEN event_queue
                      ELSE Append(event_queue, e)

\* dispatch(event): _event_queue.append(event)
Enqueue(e) ==
    /\ Len(event_queue) < MaxQueue
    /\ event_queue' = Append(event_queue, e)

\* Subscription.__init__
NewSubscription(t, cb) ==
    /\ Len(types) < MaxSubs
    /\ types' = Append(types, t)
    /\ callback' = Append(callback, cb)
    /\ queue' = Append(queue, <<>>)
    /\ terminated' = Append(terminated, FALSE)
    /\ subscriptions' = Register(subscriptions, Len(types) + 1, t)

\* Variant: kill only sets the flag and leaves the registry as it is.
KillKeepsRegistered(s) ==
    /\ subscriptions' = subscriptions
    /\ terminated' = [terminated EXCEPT ![s] = TRUE]

\* Subscription.kill: terminated is set only when every remove succeeded.
KillSubscription(s) ==
    LET r == Unregister(subscriptions, s, types[s])
    IN /\ subscriptions' = r.reg
       /\ terminated' = IF r.ok THEN [terminated EXCEPT ![s] = TRUE]
                        ELSE terminated

KillOk(s) == Unregister(subscriptions, s, types[s]).ok

\* Variant: only a subscription with a callback is truthy.
BoolOfCallback(s) == callback[s]

\* Subscription.__bool__
Bool(s) == IF callback[s] THEN TRUE ELSE queue[s] # <<>>

\* ------------------------------------------------ operations, between passes
EventInit(t, d) ==
    /\ pc = "idle"
    /\ prioritized' = 0
    /\ NewEvent(t, d)
    /\ err' = "none"
    /\ UNCHANGED <<types, callback, queue, terminated, subscriptions, passv>>
    /\ UNCHANGED ext

Dispatch(e) ==
    /\ pc = "idle"
    /\ prioritized' = 0
    /\ Enqueue(e)
    /\ err' = "none"
    /\ UNCHANGED <<heap, subscriptions, passv>>
    /\ UNCHANGED ext

SubscriptionInit(t, cb) ==
    /\ pc = "idle"
    /\ prioritized' = 0
    /\ NewSubscription(t, cb)
    /\ err' = "none"
    /\ UNCHANGED <<evtype, event_queue, passv>>
    /\ UNCHANGED ext

Kill(s) ==
    /\ pc = "idle"
    /\ prioritized' = 0
    /\ KillSubscription(s)
    /\ err' = IF KillOk(s) THEN "none" ELSE "ValueError"
    /\ UNCHANGED <<evtype, event_queue, types, callback, queue, passv>>
    /\ UNCHANGED ext

\* subscription.prioritize(), the call Widget.focus makes at widgets.py line
\* 801 for a widget that has `subs`: class Subscription (lines 68-113) defines
\* no such attribute, so the call raises AttributeError and changes nothing.
Prioritize(s) ==
    /\ pc = "idle"
    /\ prioritized' = s
    /\ err' = "AttributeError"
    /\ UNCHANGED <<heap, event_queue, subscriptions, passv>>
    /\ UNCHANGED ext

\* Variant: terminated is looked at before the callback.
AnextStopsFirst(s) ==
    /\ pc = "idle"
    /\ prioritized' = 0
    /\ \/ /\ callback[s]
          /\ ~terminated[s]
          /\ err' = "TypeError"
          /\ UNCHANGED queue
       \/ /\ ~callback[s]
          /\ ~terminated[s]
          /\ queue[s] # <<>>
          /\ err' = "none"
          /\ queue' = [queue EXCEPT ![s] = Tail(@)]
       \/ /\ terminated[s]
          /\ err' = "StopAsyncIteration"
          /\ UNCHANGED queue
    /\ UNCHANGED <<evtype, event_queue, types, callback, terminated,
                   subscriptions, passv>>
    /\ UNCHANGED ext

\* Subscription.__anext__, the path that does not suspend (lines 94-98, 105).
Anext(s) ==
    /\ pc = "idle"
    /\ prioritized' = 0
    /\ \/ /\ callback[s]
          /\ err' = "TypeError"
          /\ UNCHANGED queue
       \/ /\ ~callback[s]
          /\ ~terminated[s]
          /\ queue[s] # <<>>
          /\ err' = "none"
          /\ queue' = [queue EXCEPT ![s] = Tail(@)]
       \/ /\ ~callback[s]
          /\ terminated[s]
          /\ err' = "StopAsyncIteration"
          /\ UNCHANGED queue
    /\ UNCHANGED <<evtype, event_queue, types, callback, terminated,
                   subscriptions, passv>>
    /\ UNCHANGED ext

\* -------------------------------------------------------------- process()
\* The list the inner loop iterates: the registry's own list object, so a
\* change made to it by a callback is seen by the iteration.
CurList == list_subscriptions(cur)

Entry(s, out) == [pos |-> qi, sub |-> s, out |-> out]

\* process() is called: the deque iterator is created over the queue as it is.
BeginPass ==
    /\ pc = "idle"
    /\ \A s \in Subs : ~callback[s] => Len(queue[s]) + Len(event_queue) <= MaxPull
    /\ pc' = "events"
    /\ qi' = 0
    /\ si' = 0
    /\ cur' = 0
    /\ snap' = event_queue
    /\ regChanged' = FALSE
    /\ delivered' = <<>>
    /\ enqueued' = FALSE
    /\ prioritized' = 0
    /\ UNCHANGED <<heap, event_queue, subscriptions, err>>

ProcessBegin ==
    /\ BeginPass
    /\ UNCHANGED ext

\* One step of `for event in _event_queue` (line 142): the deque iterator
\* raises RuntimeError when the deque was changed since the iterator was made,
\* ends when it has yielded every event, and else yields the next event, for
\* which list_subscriptions(event.type) is looked up (line 143).
ProcessNextEvent ==
    /\ pc = "events"
    /\ \/ /\ event_queue # snap
          /\ pc' = "done"
          /\ err' = "RuntimeError"
          /\ UNCHANGED <<qi, si, cur>>
       \/ /\ event_queue = snap
          /\ qi = Len(snap)
          /\ pc' = "clear"
          /\ UNCHANGED <<qi, si, cur, err>>
       \/ /\ event_queue = snap
          /\ qi < Len(snap)
          /\ qi' = qi + 1
          /\ si' = 0
          /\ cur' = evtype[snap[qi + 1]]
          /\ pc' = "subs"
          /\ UNCHANGED err
    /\ UNCHANGED <<heap, event_queue, subscriptions, snap, regChanged, delivered,
                   enqueued, prioritized>>
    /\ UNCHANGED ext

\* What a callback, called with the event, may do before it returns or raises.
CallbackReturns(s) ==
    /\ delivered' = Append(delivered, Entry(s, "ok"))
    /\ UNCHANGED <<heap, event_queue, subscriptions, pc, enqueued, regChanged, err>>

\* Variant: the dispatch loop catches the exception and goes on.
CallbackRaisesSwallowed(s, x) ==
    /\ delivered' = Append(delivered, Entry(s, x))
    /\ UNCHANGED <<heap, event_queue, subscriptions, pc, enqueued, regChanged, err>>

\* Variant: the queue is emptied on the way out of a failed pass.
CallbackRaisesClears(s, x) ==
    /\ delivered' = Append(delivered, Entry(s, x))
    /\ pc' = "done"
    /\ err' = x
    /\ event_queue' = <<>>
    /\ UNCHANGED <<heap, subscriptions, enqueued, regChanged>>

CallbackRaises(s, x) ==
    /\ delivered' = Append(delivered, Entry(s, x))
    /\ pc' = "done"
    /\ err' = x
    /\ UNCHANGED <<heap, event_queue, subscriptions, enqueued, regChanged>>

CallbackMakesEvent(s, t) ==
    /\ NewEvent(t, TRUE)
    /\ enqueued' = TRUE
    /\ delivered' = Append(delivered, Entry(s, "ok"))
    /\ UNCHANGED <<types, callback, queue, terminated, subscriptions, pc,
                   regChanged, err>>

CallbackDispatches(s, e) ==
    /\ Enqueue(e)
    /\ enqueued' = TRUE
    /\ delivered' = Append(delivered, Entry(s, "ok"))
    /\ UNCHANGED <<heap, subscriptions, pc, regChanged, err>>

CallbackKills(s, k) ==
    /\ ~terminated[k]
    /\ KillSubscription(k)
    /\ regChanged' = TRUE
    /\ delivered' = Append(delivered, Entry(s, "ok"))
    /\ UNCHANGED <<evtype, event_queue, types, callback, queue, pc, enqueued, err>>

CallbackSubscribes(s, t, cb) ==
    /\ NewSubscription(t, cb)
    /\ regChanged' = TRUE
    /\ delivered' = Append(delivered, Entry(s, "ok"))
    /\ UNCHANGED <<evtype, event_queue, pc, enqueued, err>>

\* Lines 144-147 for the subscription the list iterator yields.
Deliver(s) ==
    IF callback[s]
    THEN \/ CallbackReturns(s)
         \/ \E x \in {"Error", "EventSuppressFurtherProcessing"} : CallbackRaises(s, x)
         \/ \E t \in EventTypeInputs : CallbackMakesEvent(s, t)
         \/ \E e \in Events : CallbackDispatches(s, e)
         \/ \E k \in Subs : CallbackKills(s, k)
         \/ \E t \in SubTypeInputs, cb \in BOOLEAN : CallbackSubscribes(s, t, cb)
    ELSE /\ queue' = [queue EXCEPT ![s] = Append(@, snap[qi])]
         /\ delivered' = Append(delivered, Entry(s, "ok"))
         /\ UNCHANGED <<evtype, event_queue, types, callback, terminated,
                        subscriptions, pc, enqueued, regChanged, err>>

\* One step of `for subscription in list_subscriptions(event.type)`: the list
\* iterator ends when its index is past the end of the list as it is now.
ProcessNextSubscription ==
    /\ pc = "subs"
    /\ \/ /\ si >= Len(CurList)
          /\ pc' = "events"
          /\ UNCHANGED <<heap, event_queue, subscriptions, si, delivered, enqueued,
                         regChanged, err>>
       \/ /\ si < Len(CurList)
          /\ si' = si + 1
          /\ Deliver(CurList[si + 1])
    /\ UNCHANGED <<qi, cur, snap, prioritized>>
    /\ UNCHANGED ext

\* Variant: process() returns without clearing the queue.
ProcessReturnsUncleared ==
    /\ pc = "clear"
    /\ pc' = "done"
    /\ err' = "none"
    /\ UNCHANGED <<heap, event_queue, subscriptions, qi, si, cur, snap, regChanged,
                   delivered, enqueued, prioritized>>
    /\ UNCHANGED ext

\* Line 148: _event_queue.clear(), and process() returns.
ProcessClear ==
    /\ pc = "clear"
    /\ event_queue' = <<>>
    /\ pc' = "done"
    /\ err' = "none"
    /\ UNCHANGED <<heap, subscriptions, qi, si, cur, snap, regChanged, delivered,
                   enqueued, prioritized>>
    /\ UNCHANGED ext

\* process() has returned or raised and its caller runs on: the record of the
\* pass is dropped.
EndPass ==
    /\ pc = "done"
    /\ pc' = "idle"
    /\ qi' = 0
    /\ si' = 0
    /\ cur' = 0
    /\ snap' = <<>>
    /\ regChanged' = FALSE
    /\ delivered' = <<>>
    /\ enqueued' = FALSE
    /\ prioritized' = 0
    /\ UNCHANGED <<heap, event_queue, subscriptions, err>>

ProcessReturn ==
    /\ EndPass
    /\ UNCHANGED ext

Next ==
    \/ \E t \in EventTypeInputs, d \in BOOLEAN : EventInit(t, d)
    \/ \E e \in Events : Dispatch(e)
    \/ \E t \in SubTypeInputs, cb \in BOOLEAN : SubscriptionInit(t, cb)
    \/ \E s \in Subs : Kill(s)
    \/ \E s \in Subs : Prioritize(s)
    \/ \E s \in Subs : Anext(s)
    \/ ProcessBegin
    \/ ProcessNextEvent
    \/ ProcessNextSubscription
    \/ ProcessClear
    \/ ProcessReturn

Spec == Init /\ [][Next]_vars

\* ------------------------------------- async iteration of a subscription
\* `async for event in subscription`: the consumer polls __anext__ of a
\* pull-mode subscription, the first one constructed.  The poll is followed
\* through its suspension: the sleep, the key poll, the process() call it
\* makes itself.  Other tasks run while the consumer is suspended or between
\* two polls: they construct and dispatch events, subscribe callbacks, kill
\* subscriptions and may call process() too.  The callbacks return normally
\* here; what a callback that raises, enqueues or kills does to a pass is
\* followed in Spec.
It == 1

InitPull ==
    /\ evtype = <<>>
    /\ event_queue = <<>>
    /\ \E t \in SubTypeInputs :
           /\ types = <<t>>
           /\ subscriptions = Register(<<>>, It, t)
    /\ callback = <<FALSE>>
    /\ queue = << <<>> >>
    /\ terminated = <<FALSE>>
    /\ pc = "idle"
    /\ qi = 0
    /\ si = 0
    /\ cur = 0
    /\ snap = <<>>
    /\ regChanged = FALSE
    /\ delivered = <<>>
    /\ enqueued = FALSE
    /\ prioritized = 0
    /\ err = "none"
    /\ apc = "out"
    /\ yielded = <<>>
    /\ sent = <<>>
    /\ polled = FALSE
    /\ TickInit
    /\ TransformInit
    /\ WidgetsInit
    /\ LaterInit

\* The consumer does not run: it is suspended in the sleep or between polls.
Suspended == pc = "idle" /\ apc \in {"out", "sleep"}

\* An event of type t is dispatched for the iterated subscription.
ForIt(t) == ~terminated[It] /\ t \in FlagsOf(types[It])

\* The bounds: the pull queue has room for whatever stands in the event queue.
Sent(t, e) ==
    /\ Len(queue[It]) + Len(event_queue) < MaxPull
    /\ ForIt(t) => Len(sent) < MaxSent
    /\ sent' = IF ForIt(t) THEN Append(sent, e) ELSE sent

PullEventInit(t, d) ==
    /\ Suspended
    /\ NewEvent(t, d)
    /\ IF d THEN Sent(t, Len(evtype) + 1) ELSE UNCHANGED sent
    /\ prioritized' = 0
    /\ err' = "none"
    /\ UNCHANGED <<types, callback, queue, terminated, subscriptions, passv,
                   apc, yielded, polled, tickv, tfv, wv,
                   later>>

PullDispatch(e) ==
    /\ Suspended
    /\ Enqueue(e)
    /\ Sent(evtype[e], e)
    /\ prioritized' = 0
    /\ err' = "none"
    /\ UNCHANGED <<heap, subscriptions, passv, apc, yielded, polled, tickv, tfv,
                   wv, later>>

PullSubscribe(t) ==
    /\ Suspended
    /\ NewSubscription(t, TRUE)
    /\ prioritized' = 0
    /\ err' = "none"
    /\ UNCHANGED <<evtype, event_queue, passv, pullv, tickv, tfv, wv,
                   later>>

PullKill(s) ==
    /\ Suspended
    /\ KillSubscription(s)
    /\ prioritized' = 0
    /\ err' = IF KillOk(s) THEN "none" ELSE "ValueError"
    /\ UNCHANGED <<evtype, event_queue, types, callback, queue, passv, pullv,
                   tickv, tfv, wv, later>>

\* Another task calls process() while the consumer is suspended.
PullOtherProcess ==
    /\ Suspended
    /\ ProcessBegin

PullOtherReturn ==
    /\ apc # "pump"
    /\ ProcessReturn

\* Lines 144-147 with a callback that returns normally.
DeliverQuiet(s) ==
    IF callback[s]
    THEN CallbackReturns(s)
    ELSE /\ queue' = [queue EXCEPT ![s] = Append(@, snap[qi])]
         /\ delivered' = Append(delivered, Entry(s, "ok"))
         /\ UNCHANGED <<evtype, event_queue, types, callback, terminated,
                        subscriptions, pc, enqueued, regChanged, err>>

PullNextSubscription ==
    /\ pc = "subs"
    /\ \/ /\ si >= Len(CurList)
          /\ pc' = "events"
          /\ UNCHANGED <<heap, event_queue, subscriptions, si, delivered, enqueued,
                         regChanged, err>>
       \/ /\ si < Len(CurList)
          /\ si' = si + 1
          /\ DeliverQuiet(CurList[si + 1])
    /\ UNCHANGED <<qi, cur, snap, prioritized>>
    /\ UNCHANGED ext

\* Variant: a killed subscription still yields what its queue holds.
LoopHeadDrains ==
    IF queue[It] # <<>>
    THEN /\ apc' = "out"
         /\ yielded' = Append(yielded, Head(queue[It]))
         /\ queue' = [queue EXCEPT ![It] = Tail(@)]
         /\ err' = "none"
    ELSE IF terminated[It]
    THEN /\ apc' = "stopped"
         /\ err' = "StopAsyncIteration"
         /\ UNCHANGED <<queue, yielded>>
    ELSE /\ apc' = "sleep"
         /\ UNCHANGED <<queue, yielded, err>>

\* Variant: the newest queued event is popped.
LoopHeadPopsNewest ==
    IF terminated[It]
    THEN /\ apc' = "stopped"
         /\ err' = "StopAsyncIteration"
         /\ UNCHANGED <<queue, yielded>>
    ELSE IF queue[It] # <<>>
    THEN /\ apc' = "out"
         /\ yielded' = Append(yielded, queue[It][Len(queue[It])])
         /\ queue' = [queue EXCEPT ![It] = SubSeq(@, 1, Len(@) - 1)]
         /\ err' = "none"
    ELSE /\ apc' = "sleep"
         /\ UNCHANGED <<queue, yielded, err>>

\* Lines 96-99 and 105: the head of `while not self.terminated`.  A killed
\* subscription raises StopAsyncIteration, a queued event is popped from the
\* left and returned, and with an empty queue the coroutine awaits the sleep.
LoopHead ==
    IF terminated[It]
    THEN /\ apc' = "stopped"
         /\ err' = "StopAsyncIteration"
         /\ UNCHANGED <<queue, yielded>>
    ELSE IF queue[It] # <<>>
    THEN /\ apc' = "out"
         /\ yielded' = Append(yielded, Head(queue[It]))
         /\ queue' = [queue EXCEPT ![It] = Tail(@)]
         /\ err' = "none"
    ELSE /\ apc' = "sleep"
         /\ UNCHANGED <<queue, yielded, err>>

\* The consumer polls (__anext__ is called: the callback test of line 94 is
\* false for a pull-mode subscription), or the loop comes round after the
\* process() call of line 103.
PullAnext ==
    /\ pc = "idle"
    /\ apc \in {"out", "loop"}
    /\ LoopHead
    /\ prioritized' = 0
    /\ UNCHANGED <<evtype, event_queue, types, callback, terminated,
                   subscriptions, passv, sent, polled, tickv, tfv, wv,
                   later>>

\* terminedia.inkey(): the terminal is polled; a key that was pressed is
\* dispatched as a KeyPress event.
KeyPoll ==
    \/ UNCHANGED <<evtype, event_queue, sent>>
    \/ /\ NewEvent(KeyPress, TRUE)
       /\ Sent(KeyPress, Len(evtype) + 1)

\* Variant: the keys are polled whatever the types of the subscription.
PullWakePollsAlways ==
    /\ pc = "idle"
    /\ apc = "sleep"
    /\ apc' = "woke"
    /\ polled' = TRUE
    /\ KeyPoll
    /\ UNCHANGED <<types, callback, queue, terminated, subscriptions, passv,
                   prioritized, err, yielded, tickv, tfv, wv,
                   later>>

\* Lines 99-102: the sleep is over; `if KeyPress in self.types` the keys are
\* polled.
PullWake ==
    /\ pc = "idle"
    /\ apc = "sleep"
    /\ apc' = "woke"
    /\ polled' = (KeyPress \in FlagsOf(types[It]))
    /\ IF KeyPress \in FlagsOf(types[It]) THEN KeyPoll
       ELSE UNCHANGED <<evtype, event_queue, sent>>
    /\ UNCHANGED <<types, callback, queue, terminated, subscriptions, passv,
                   prioritized, err, yielded, tickv, tfv, wv,
                   later>>

\* Variant: the loop comes round without a process() call.
PullSkipsProcess ==
    /\ pc = "idle"
    /\ apc = "woke"
    /\ apc' = "loop"
    /\ polled' = FALSE
    /\ UNCHANGED <<evars, yielded, sent, tickv, tfv, wv, later>>

\* Line 103: process() is called.
PullProcess ==
    /\ apc = "woke"
    /\ BeginPass
    /\ apc' = "pump"
    /\ UNCHANGED <<yielded, sent, polled, tickv, tfv, wv, later>>

\* process() returns to line 103 and the loop comes round; an exception of
\* process() leaves __anext__.
PullResume ==
    /\ apc = "pump"
    /\ EndPass
    /\ apc' = IF err = "none" THEN "loop" ELSE "failed"
    /\ polled' = FALSE
    /\ UNCHANGED <<yielded, sent, tickv, tfv, wv, later>>

PullNext ==
    \/ \E t \in EventTypeInputs, d \in BOOLEAN : PullEventInit(t, d)
    \/ \E e \in Events : PullDispatch(e)
    \/ \E t \in SubTypeInputs : PullSubscribe(t)
    \/ \E s \in Subs : PullKill(s)
    \/ PullOtherProcess
    \/ PullOtherReturn
    \/ ProcessNextEvent
    \/ PullNextSubscription
    \/ ProcessClear
    \/ PullAnext
    \/ PullWake
    \/ PullProcess
    \/ PullResume

SpecPull == InitPull /\ [][PullNext]_vars

\* process() is straight-line code that runs to its end, and the event loop
\* of asyncio runs every task whose sleep is over: the consumer cannot be
\* starved by the other tasks.
PullFairness ==
    /\ WF_vars(ProcessNextEvent)
    /\ WF_vars(PullNextSubscription)
    /\ WF_vars(ProcessClear)
    /\ WF_vars(PullOtherReturn)
    /\ WF_vars(PullResume)
    /\ WF_vars(PullProcess)
    /\ SF_vars(PullAnext)
    /\ SF_vars(PullWake)

SpecPullLive == SpecPull /\ PullFairness

\* ------------------------------------------------------ the tick of an Event
\* The tick keyword of Event(): left out, or an integer.
NoTick == <<>>
TickInputs == {NoTick} \cup {<<n>> : n \in (0 - MaxTick)..MaxTick}

\* terminedia.utils.get_current_tick(): the global counter.
get_current_tick == curtick

\* Line 58: kwargs.pop("tick", None) or get_current_tick().  Python's `or`
\* gives its right operand when the left one is falsy: None, and also 0.
EventTick(arg) ==
    IF arg = NoTick THEN get_current_tick
    ELSE IF arg[1] = 0 THEN get_current_tick
    ELSE arg[1]

\* The frame loop moves the global counter on.
TickAdvance ==
    /\ curtick < MaxTick
    /\ curtick' = curtick + 1
    /\ UNCHANGED <<tickarg, etick, evars, pullv, tfv, wv, later>>

\* Event(type, dispatch=False, tick=...) or Event(type, dispatch=False).
EventInitTick(arg) ==
    /\ tickarg' = arg
    /\ etick' = EventTick(arg)
    /\ UNCHANGED <<curtick, evars, pullv, tfv, wv, later>>

TickNext ==
    \/ TickAdvance
    \/ \E arg \in TickInputs : EventInitTick(arg)

SpecTick == Init /\ [][TickNext]_vars

\* ------------------------------------------------------------ transformers
\* `if getattr(self, channel)` and `if not transformer_channel`: a callable
\* is true, a constant is true unless it is '', () or 0, None is false.
Truthy(ch, slot) ==
    \/ slot.kind = "call"
    \/ slot.kind = "const" /\ slot.v # Falsy(ch)

\* inspect.signature(f).parameters.keys()
Params(f) ==
    IF f = "upper" THEN {"value"}
    ELSE IF f = "swap" THEN {"background"}
    ELSE IF f = "at" THEN {"pos"}
    ELSE IF f = "ontick" THEN {"tick"}
    ELSE IF f = "ctx" THEN {"context"}
    ELSE IF f = "copyfg" THEN {"foreground"}
    ELSE {}

\* Lines 43-45: signature() is called on every slot that is true, and raises
\* TypeError for one that is not callable.
InitFails(slots) ==
    \E ch \in ChannelSet : slots[ch].kind = "const" /\ Truthy(ch, slots[ch])

Signatures(slots) ==
    [ch \in ChannelSet |->
        IF slots[ch].kind = "call" THEN Params(slots[ch].f) ELSE {}]

\* An item of the stack is the serial number of a Transformer, or something
\* that is not a Transformer.
NotATransformer == 0

IsTransformer(item) == item \in 1..Len(tf)

\* The attributes process() reads from an item of the stack; line 102 reads
\* a channel with the default None.
Attrs(item) ==
    IF IsTransformer(item) THEN tf[item]
    ELSE NoSlots @@ [signatures |-> Signatures(NoSlots)]

\* values = list(pixel): the four fields, in the order of the channels.
list(pixel) == [n \in 1..Len(channels) |-> pixel[channels[n]]]

ch_num(ch) == CHOOSE n \in 1..Len(channels) : channels[n] = ch

\* Variant: the second and third value are given to the wrong field.
pclsCrossed(values) ==
    [ch \in ChannelSet |->
        IF ch = "foreground" THEN values[ch_num("background")]
        ELSE IF ch = "background" THEN values[ch_num("foreground")]
        ELSE values[ch_num(ch)]]

\* pcls(*values), line 110: the pixel built from four values by position.
pcls(values) == [ch \in ChannelSet |-> values[ch_num(ch)]]

\* The names build_args has a branch for.
Injected ==
    {"self", "value", "pos", "pixel", "source", "tick", "context"}
        \cup ChannelSet

\* Variant: a channel name is bound to the value computed so far.
bind_computed(item, n, source, pos, pixel, values, parameter) ==
    IF parameter = "self" THEN item
    ELSE IF parameter = "value" THEN values[n]
    ELSE IF parameter \in ChannelSet THEN values[ch_num(parameter)]
    ELSE IF parameter = "pos" THEN pos
    ELSE IF parameter = "pixel" THEN pixel
    ELSE IF parameter = "source" THEN source
    ELSE source.context

\* Variant: pos is bound to the origin.
bind_origin(item, n, source, pos, pixel, values, parameter) ==
    IF parameter = "self" THEN item
    ELSE IF parameter = "value" THEN values[n]
    ELSE IF parameter \in ChannelSet THEN pixel[parameter]
    ELSE IF parameter = "pos" THEN Origin
    ELSE IF parameter = "pixel" THEN pixel
    ELSE IF parameter = "source" THEN source
    ELSE source.context

\* Lines 79-94, one branch of build_args: the value bound to a name.  A field
\* of the pixel is read for a channel name (`value` for char, line 84).
bind(item, n, source, pos, pixel, values, parameter) ==
    IF parameter = "self" THEN item
    ELSE IF parameter = "value" THEN values[n]
    ELSE IF parameter \in ChannelSet THEN pixel[parameter]
    ELSE IF parameter = "pos" THEN pos
    ELSE IF parameter = "pixel" THEN pixel
    ELSE IF parameter = "source" THEN source
    ELSE source.context

\* Variant: the names of the callable the slot holds now are bound.
signature_now(item, ch) ==
    LET slot == Attrs(item)[ch]
    IN IF slot.kind = "call" THEN Params(slot.f) ELSE {}

\* transformer.signatures[channel], line 108.
signature_of(item, ch) == Attrs(item).signatures[ch]

\* build_args, lines 75-95: the names of the signature are bound one by one.
\* Line 92 reads the name `context`, which is bound neither in process() nor
\* in the module: NameError.  Line 94 reads source.context: AttributeError
\* when the source has none.
build_args(item, n, source, pos, pixel, values) ==
    LET signature == signature_of(item, channels[n])
    IN IF "tick" \in signature
       THEN [err |-> "NameError", args |-> <<>>]
       ELSE IF "context" \in signature /\ ~source.has_context
       THEN [err |-> "AttributeError", args |-> <<>>]
       ELSE [err |-> "none",
             args |-> [parameter \in signature \cap Injected |->
                          bind(item, n, source, pos, pixel, values, parameter)]]

Upper(c) == IF c = "x" THEN "X" ELSE IF c = "a" THEN "A" ELSE c

\* What at() and ctx() return for the channel they are put on.
Mark(ch) == IF ch = "char" THEN "#" ELSE IF ch = "effects" THEN 1 ELSE Red

\* transformer_channel(**params), line 109: Python raises TypeError when the
\* keywords are not the callable's parameters.
Call(ch, f, args) ==
    IF DOMAIN args # Params(f) THEN [err |-> "TypeError", v |-> Falsy(ch)]
    ELSE IF f = "hash" THEN [err |-> "none", v |-> "#"]
    ELSE IF f = "upper" THEN [err |-> "none", v |-> Upper(args["value"])]
    ELSE IF f = "swap" THEN [err |-> "none", v |-> args["background"]]
    ELSE IF f = "copyfg" THEN [err |-> "none", v |-> args["foreground"]]
    ELSE [err |-> "none", v |-> Mark(ch)]

\* Line 103: `if not transformer_channel: continue`
ChannelSkipped(ch, slot) == ~Truthy(ch, slot)

\* An entry of the history of calls: the Transformer at position k of the
\* stack reached the callable of channel ch, with these arguments and end.
Reached(k, ch, args, e) == [k |-> k, ch |-> ch, args |-> args, err |-> e]

\* Variant: a failure of build_args is swallowed and the channel left as it is.
RECURSIVE ChannelLoopCatches(_, _, _, _, _, _, _, _)
ChannelLoopCatches(stk, k, source, pos, pixel, values, n, log) ==
    IF n > Len(channels) THEN [err |-> "none", values |-> values, calls |-> log]
    ELSE LET ch == channels[n]
             slot == Attrs(stk[k])[ch]
         IN IF ChannelSkipped(ch, slot)
            THEN ChannelLoopCatches(stk, k, source, pos, pixel, values, n + 1, log)
            ELSE IF slot.kind = "const"
            THEN ChannelLoopCatches(stk, k, source, pos, pixel,
                                    [values EXCEPT ![n] = slot.v], n + 1, log)
            ELSE LET b == build_args(stk[k], n, source, pos, pixel, values)
                     r == IF b.err # "none" THEN [err |-> b.err, v |-> Falsy(ch)]
                          ELSE Call(ch, slot.f, b.args)
                     entry == Reached(k, ch, b.args, r.err)
                 IN IF b.err # "none"
                    THEN ChannelLoopCatches(stk, k, source, pos, pixel, values,
                                            n + 1, Append(log, entry))
                    ELSE IF r.err # "none"
                    THEN [err |-> r.err, values |-> values,
                          calls |-> Append(log, entry)]
                    ELSE ChannelLoopCatches(stk, k, source, pos, pixel,
                                            [values EXCEPT ![n] = r.v], n + 1,
                                            Append(log, entry))

\* Lines 101-109: the channels of the Transformer at position k, from the
\* n-th on.  An exception of build_args or of the callable ends the loop.
RECURSIVE ChannelLoop(_, _, _, _, _, _, _, _)
ChannelLoop(stk, k, source, pos, pixel, values, n, log) ==
    IF n > Len(channels) THEN [err |-> "none", values |-> values, calls |-> log]
    ELSE LET ch == channels[n]
             slot == Attrs(stk[k])[ch]
         IN IF ChannelSkipped(ch, slot)
            THEN ChannelLoop(stk, k, source, pos, pixel, values, n + 1, log)
            ELSE IF slot.kind = "const"
            THEN ChannelLoop(stk, k, source, pos, pixel,
                             [values EXCEPT ![n] = slot.v], n + 1, log)
            ELSE LET b == build_args(stk[k], n, source, pos, pixel, values)
                     r == IF b.err # "none" THEN [err |-> b.err, v |-> Falsy(ch)]
                          ELSE Call(ch, slot.f, b.args)
                     entry == Reached(k, ch, b.args, r.err)
                 IN IF r.err # "none"
                    THEN [err |-> r.err, values |-> values,
                          calls |-> Append(log, entry)]
                    ELSE ChannelLoop(stk, k, source, pos, pixel,
                                     [values EXCEPT ![n] = r.v], n + 1,
                                     Append(log, entry))

\* Variant: every Transformer is given the pixel process() was called with.
RECURSIVE StackLoopUnchained(_, _, _, _, _, _, _)
StackLoopUnchained(stk, source, pos, pixel, k, tr, log) ==
    IF k > Len(stk)
    THEN [err |-> "none", trace |-> tr, calls |-> log,
          pixel |-> IF tr = <<>> THEN pixel ELSE tr[Len(tr)].out]
    ELSE LET r == ChannelLoop(stk, k, source, pos, pixel, list(pixel), 1, log)
         IN IF r.err # "none"
            THEN [err |-> r.err, pixel |-> NoPixel, trace |-> tr, calls |-> r.calls]
            ELSE StackLoopUnchained(stk, source, pos, pixel, k + 1,
                                    Append(tr, [in |-> pixel, out |-> pcls(r.values)]),
                                    r.calls)

\* Lines 99-111: the Transformers of the stack from the k-th on; the pixel
\* built from the values of one is the pixel the next one is given.
RECURSIVE StackLoop(_, _, _, _, _, _, _)
StackLoop(stk, source, pos, pixel, k, tr, log) ==
    IF k > Len(stk)
    THEN [err |-> "none", pixel |-> pixel, trace |-> tr, calls |-> log]
    ELSE LET r == ChannelLoop(stk, k, source, pos, pixel, list(pixel), 1, log)
         IN IF r.err # "none"
            THEN [err |-> r.err, pixel |-> NoPixel, trace |-> tr, calls |-> r.calls]
            ELSE StackLoop(stk, source, pos, pcls(r.values), k + 1,
                           Append(tr, [in |-> pixel, out |-> pcls(r.values)]),
                           r.calls)

\* No run of process() is on record after another operation.
NoRun ==
    /\ tsource' = Bare
    /\ tpos' = Origin
    /\ tin' = NoPixel
    /\ calls' = <<>>
    /\ trace' = <<>>
    /\ tout' = NoPixel

\* Transformer.__init__
TransformerInit(slots) ==
    /\ Len(tf) < MaxTransformers
    /\ top' = "init"
    /\ targ' = slots
    /\ IF InitFails(slots)
       THEN /\ terr' = "TypeError"
            /\ UNCHANGED tf
       ELSE /\ terr' = "none"
            /\ tf' = Append(tf, slots @@ [signatures |-> Signatures(slots)])
    /\ NoRun
    /\ UNCHANGED <<stack, last, evars, pullv, tickv, wv, later>>

\* transformer.<channel> = None, a constant or a callable: the attribute is
\* assigned, the signatures stay as they are.
SetChannel(t, ch, slot) ==
    /\ tf[t][ch] # slot
    /\ tf' = [tf EXCEPT ![t][ch] = slot]
    /\ top' = "set"
    /\ targ' = NoSlots
    /\ terr' = "none"
    /\ NoRun
    /\ UNCHANGED <<stack, last, evars, pullv, tickv, wv, later>>

\* Variant: the hook lets every item in.
insert_hook_any(item) == "none"

\* insert_hook, lines 60-65: TypeError for an item that is no Transformer.
insert_hook(item) == IF IsTransformer(item) THEN "none" ELSE "TypeError"

\* The list with item put before Python index i.
InsertAt(seq, i, item) ==
    SubSeq(seq, 1, i) \o <<item>> \o SubSeq(seq, i + 1, Len(seq))

\* container.append(item): the hook is asked before the list is changed.
ContainerAppend(item) ==
    /\ Len(stack) < MaxStack
    /\ terr' = insert_hook(item)
    /\ stack' = IF terr' = "none" THEN Append(stack, item) ELSE stack
    /\ top' = "append"
    /\ targ' = NoSlots
    /\ NoRun
    /\ UNCHANGED <<tf, last, evars, pullv, tickv, wv, later>>

\* container.insert(i, item)
ContainerInsert(i, item) ==
    /\ Len(stack) < MaxStack
    /\ terr' = insert_hook(item)
    /\ stack' = IF terr' = "none" THEN InsertAt(stack, i, item) ELSE stack
    /\ top' = "insert"
    /\ targ' = NoSlots
    /\ NoRun
    /\ UNCHANGED <<tf, last, evars, pullv, tickv, wv, later>>

\* container[i] = item
ContainerSetItem(i, item) ==
    /\ terr' = insert_hook(item)
    /\ stack' = IF terr' = "none" THEN [stack EXCEPT ![i] = item] ELSE stack
    /\ top' = "setitem"
    /\ targ' = NoSlots
    /\ NoRun
    /\ UNCHANGED <<tf, last, evars, pullv, tickv, wv, later>>

\* container.remove(item): the first occurrence goes, ValueError when the
\* item is not in the list.
ContainerRemove(item) ==
    /\ IF item \in Range(stack)
       THEN /\ stack' = RemoveFirst(stack, item)
            /\ terr' = "none"
       ELSE /\ terr' = "ValueError"
            /\ UNCHANGED stack
    /\ top' = "remove"
    /\ targ' = NoSlots
    /\ NoRun
    /\ UNCHANGED <<tf, last, evars, pullv, tickv, wv, later>>

\* What process() reads of the container: the attributes of its items.
StackState == [k \in 1..Len(stack) |-> Attrs(stack[k])]

\* The call on record had the arguments of this one.
SameArguments(source, pos, pixel) ==
    last.valid /\ last.source = source /\ last.pos = pos /\ last.pixel = pixel

\* Variant: the result of the call before is given again for equal
\* arguments.
ProcessCached(source, pos, pixel) ==
    LET hit == SameArguments(source, pos, pixel)
        r == StackLoop(stack, source, pos, pixel, 1, <<>>, <<>>)
    IN /\ top' = "process"
       /\ targ' = NoSlots
       /\ tsource' = source
       /\ tpos' = pos
       /\ tin' = pixel
       /\ calls' = IF hit THEN <<>> ELSE r.calls
       /\ trace' = IF hit THEN <<>> ELSE r.trace
       /\ tout' = IF hit THEN last.out ELSE r.pixel
       /\ terr' = IF hit THEN last.err ELSE r.err
       /\ UNCHANGED <<tf, stack, evars, pullv, tickv, wv, later>>

\* TransformersContainer.process(source, pos, pixel)
Process(source, pos, pixel) ==
    LET r == StackLoop(stack, source, pos, pixel, 1, <<>>, <<>>)
    IN /\ top' = "process"
       /\ targ' = NoSlots
       /\ tsource' = source
       /\ tpos' = pos
       /\ tin' = pixel
       /\ calls' = r.calls
       /\ trace' = r.trace
       /\ tout' = r.pixel
       /\ terr' = r.err
       /\ UNCHANGED <<tf, stack, evars, pullv, tickv, wv, later>>

ContainerProcess(source, pos, pixel) ==
    /\ Process(source, pos, pixel)
    /\ UNCHANGED last

\* process(), with the call kept on record for the next one to be compared
\* with; it is also kept whether a call was ever repeated on an unchanged
\* stack, and whether one ever gave another pixel after a change of the stack.
ContainerRead(source, pos, pixel) ==
    /\ Process(source, pos, pixel)
    /\ last' = [valid |-> TRUE, state |-> StackState, source |-> source,
                pos |-> pos, pixel |-> pixel, out |-> tout', err |-> terr',
                repeated |-> \/ last.repeated
                             \/ /\ SameArguments(source, pos, pixel)
                                /\ last.state = StackState,
                differed |-> \/ last.differed
                             \/ /\ SameArguments(source, pos, pixel)
                                /\ last.state # StackState
                                /\ last.err = "none"
                                /\ terr' = "none"
                                /\ last.out # tout']

TransformNext ==
    \/ \E slots \in TransformerInputs : TransformerInit(slots)
    \/ \E t \in 1..Len(tf) : \E ch \in ChannelSet :
           \E slot \in {sl \in SlotInputs(ch) : sl.kind # "call"} :
               SetChannel(t, ch, slot)
    \/ \E t \in 1..Len(tf) : ContainerAppend(t)
    \/ \E pixel \in PixelInputs : ContainerProcess(Bare, Origin, pixel)

SpecTransform == Init /\ [][TransformNext]_vars

\* ------------------------------------------- the arguments of the callables
\* Transformers whose callables declare pos, tick, context and channel names.
AtAll == [ch \in ChannelSet |-> Fn(ch, "at")]

TickEffects == [NoSlots EXCEPT !["effects"] = Fn("effects", "ontick")]

ContextForeground ==
    [NoSlots EXCEPT !["char"] = Fn("char", "hash"),
                    !["foreground"] = Fn("foreground", "ctx"),
                    !["effects"] = Fn("effects", "at")]

CrossRead ==
    [NoSlots EXCEPT !["char"] = Fn("char", "upper"),
                    !["foreground"] = Fn("foreground", "at"),
                    !["background"] = Fn("background", "copyfg")]

BindInputs == {AtAll, TickEffects, ContextForeground, CrossRead, NoSlots}

\* What the char slot is re-assigned to.
RebindInputs == {NoneSlot("char"), Fn("char", "hash"), Fn("char", "upper")}

BindNext ==
    \/ \E slots \in BindInputs : TransformerInit(slots)
    \/ \E t \in 1..Len(tf) : \E slot \in RebindInputs : SetChannel(t, "char", slot)
    \/ \E t \in 1..Len(tf) : ContainerAppend(t)
    \/ \E source \in SourceInputs : \E pos \in PosInputs : \E pixel \in PixelInputs :
           ContainerProcess(source, pos, pixel)

SpecBind == Init /\ [][BindNext]_vars

\* ------------------------------------------------- the container as a list
HashChar == [NoSlots EXCEPT !["char"] = Fn("char", "hash")]

UpperChar == [NoSlots EXCEPT !["char"] = Fn("char", "upper")]

ContainerInputs == {HashChar, UpperChar}

ItemInputs == (1..Len(tf)) \cup {NotATransformer}

ContainerNext ==
    \/ \E slots \in ContainerInputs : TransformerInit(slots)
    \/ \E item \in ItemInputs : ContainerAppend(item)
    \/ \E i \in 0..Len(stack) : \E item \in ItemInputs : ContainerInsert(i, item)
    \/ \E i \in 1..Len(stack) : \E item \in ItemInputs : ContainerSetItem(i, item)
    \/ \E item \in ItemInputs : ContainerRemove(item)
    \/ \E source \in SourceInputs : \E pos \in PosInputs : \E pixel \in PixelInputs :
           ContainerRead(source, pos, pixel)

SpecContainer == Init /\ [][ContainerNext]_vars

\* ----------------------------------------------------------------- widgets
\* One widget of src/terminedia/widgets.py, from its construction to the end
\* of `await widget`.  The reactor's focus is the widget W or None (0).
W == 1

ClassInputs == {"Widget", "Entry"}

\* The esc_callback argument: None, one callback or a list of callbacks.  A
\* callback returns, or raises EventSuppressFurtherProcessing.
EscInputs == {<<>>, <<"returns">>, <<"suppresses">>, <<"returns", "suppresses">>}

KeyInputs == {"ESC", "ENTER", "x"}

\* The texts an Entry can hold.
TextInputs == {"", "x"}

Reversed(seq) == [i \in 1..Len(seq) |-> seq[Len(seq) + 1 - i]]

\* Variant: the callbacks after the one that raised are called too.
RunAll(cbs) == cbs

\* Widget.keypress, lines 849-855: the callbacks of a key are called in the
\* order given until one raises EventSuppressFurtherProcessing.
RECURSIVE RunUntilSuppressed(_)
RunUntilSuppressed(cbs) ==
    IF cbs = <<>> THEN <<>>
    ELSE IF Head(cbs) = "suppresses" THEN <<Head(cbs)>>
    ELSE <<Head(cbs)>> \o RunUntilSuppressed(Tail(cbs))

\* Widget.__init__: the default handler is the first of esc_callbacks, the
\* widget is registered and given the focus.
WidgetInit(cls, canc, esc) ==
    /\ wclass = "none"
    /\ wclass' = cls
    /\ cancellable' = canc
    /\ esc_callbacks' = <<"_default_escape">> \o esc
    /\ focus' = W
    /\ done' = FALSE
    /\ wterminated' = FALSE
    /\ UNCHANGED <<cancelled, value, kills, aw, aresult, lastkey, ran,
                   evars, pullv, tickv, tfv, later>>

\* Widget.kill, lines 809-822.
KillEffects ==
    /\ focus' = 0
    /\ done' = TRUE
    /\ wterminated' = TRUE
    /\ kills' = kills + 1

\* widget.kill() called by the application.
WidgetKill ==
    /\ wclass # "none"
    /\ kills < MaxKills
    /\ KillEffects
    /\ UNCHANGED <<wclass, cancellable, esc_callbacks, cancelled, value, aw,
                   aresult, lastkey, ran, evars, pullv, tickv, tfv,
                   later>>

\* A key press reaches Widget.keypress while the widget's subscription is
\* alive and the widget has the focus (the guard of line 759).
Delivered == wclass # "none" /\ ~wterminated /\ focus = W

\* ESC: the esc_callbacks in reverse; _default_escape (lines 824-828) kills
\* a cancellable widget, marks it cancelled and gives up the focus.
KeypressEsc ==
    /\ Delivered
    /\ lastkey' = "ESC"
    /\ ran' = RunUntilSuppressed(Reversed(esc_callbacks))
    /\ IF "_default_escape" \in Range(ran')
       THEN IF cancellable
            THEN /\ KillEffects
                 /\ cancelled' = TRUE
            ELSE /\ focus' = 0
                 /\ UNCHANGED <<done, wterminated, kills, cancelled>>
       ELSE UNCHANGED <<focus, done, wterminated, kills, cancelled>>
    /\ value' \in IF wclass = "Entry" THEN TextInputs ELSE {value}
    /\ UNCHANGED <<wclass, cancellable, esc_callbacks, aw, aresult,
                   evars, pullv, tickv, tfv, later>>

\* ENTER: Entry._default_enter sets done, Widget._default_enter does nothing.
KeypressEnter ==
    /\ Delivered
    /\ lastkey' = "ENTER"
    /\ ran' = <<"_default_enter">>
    /\ done' = IF wclass = "Entry" THEN TRUE ELSE done
    /\ value' \in IF wclass = "Entry" THEN TextInputs ELSE {value}
    /\ UNCHANGED <<wclass, cancellable, esc_callbacks, focus, wterminated,
                   cancelled, kills, aw, aresult, evars, pullv, tickv, tfv,
                   later>>

\* Any other key: only the keypress_callbacks, which an Entry has one of
\* (Text.handle_key, the edit of the text).
KeypressOther ==
    /\ Delivered
    /\ lastkey' = "x"
    /\ ran' = IF wclass = "Entry" THEN <<"handle_key">> ELSE <<>>
    /\ value' \in IF wclass = "Entry" THEN TextInputs ELSE {value}
    /\ UNCHANGED <<wclass, cancellable, esc_callbacks, focus, done,
                   wterminated, cancelled, kills, aw, aresult,
                   evars, pullv, tickv, tfv, later>>

\* A click on a registered widget: _default_click takes the focus.
WidgetClick ==
    /\ wclass # "none"
    /\ ~wterminated
    /\ focus # W
    /\ focus' = W
    /\ UNCHANGED <<wclass, cancellable, esc_callbacks, done, wterminated,
                   cancelled, value, kills, aw, aresult, lastkey, ran,
                   evars, pullv, tickv, tfv, later>>

\* A callback of the application sets widget.done = True.
SetDone ==
    /\ wclass # "none"
    /\ ~done
    /\ done' = TRUE
    /\ UNCHANGED <<wclass, cancellable, esc_callbacks, focus, wterminated,
                   cancelled, value, kills, aw, aresult, lastkey, ran,
                   evars, pullv, tickv, tfv, later>>

\* getattr(self, "value", None): the text of an Entry, None for a Widget.
ValueOf == IF wclass = "Entry" THEN value ELSE "None"

\* Variant: the await ends at its first step, done or not.
AwaitEager ==
    /\ wclass # "none"
    /\ aw \in {"none", "waiting"}
    /\ IF ~wterminated THEN KillEffects
       ELSE UNCHANGED <<focus, done, wterminated, kills>>
    /\ aw' = IF cancelled THEN "raised" ELSE "returned"
    /\ aresult' = IF cancelled THEN "WidgetCancelled" ELSE ValueOf
    /\ UNCHANGED <<wclass, cancellable, esc_callbacks, cancelled, value,
                   lastkey, ran, evars, pullv, tickv, tfv,
                   later>>

\* Widget.__await__, lines 866-876, one step of the generator: it yields
\* while done is false; then it kills a widget that is not terminated and
\* raises WidgetCancelled or returns the value.
Await ==
    /\ wclass # "none"
    /\ aw \in {"none", "waiting"}
    /\ IF ~done
       THEN /\ aw' = "waiting"
            /\ UNCHANGED <<focus, done, wterminated, kills, aresult>>
       ELSE /\ IF ~wterminated THEN KillEffects
               ELSE UNCHANGED <<focus, done, wterminated, kills>>
            /\ aw' = IF cancelled THEN "raised" ELSE "returned"
            /\ aresult' = IF cancelled THEN "WidgetCancelled" ELSE ValueOf
    /\ UNCHANGED <<wclass, cancellable, esc_callbacks, cancelled, value,
                   lastkey, ran, evars, pullv, tickv, tfv,
                   later>>

WidgetNext ==
    \/ \E cls \in ClassInputs : \E canc \in BOOLEAN : \E esc \in EscInputs :
           WidgetInit(cls, canc, esc)
    \/ WidgetKill
    \/ KeypressEsc
    \/ KeypressEnter
    \/ KeypressOther
    \/ WidgetClick
    \/ SetDone
    \/ Await

SpecWidget == Init /\ [][WidgetNext]_vars

\* ------------------------------------------------- vocabulary of the claims
Idx == 1..Len(delivered)

\* The type of the event at position k of the queue the pass began with.
EvType(k) == evtype[snap[k]]

\* The event at position k is of one of the atomic flags of subscription s.
IsFor(s, k) == EvType(k) \in FlagsOf(types[s])

\* The live subscriptions the event at position k is for, in the order in
\* which they were created (the serial numbers ascend with creation).
RECURSIVE TargetsFrom(_, _)
TargetsFrom(k, s) ==
    IF s > Len(types) THEN <<>>
    ELSE (IF ~terminated[s] /\ IsFor(s, k) THEN <<s>> ELSE <<>>)
         \o TargetsFrom(k, s + 1)

Targets(k) == TargetsFrom(k, 1)

\* The subscriptions the event at position k was delivered to, in order.
SentTo(k) ==
    LET d == SelectSeq(delivered, LAMBDA x : x.pos = k)
    IN [i \in 1..Len(d) |-> d[i].sub]

RECURSIVE ExpectedFrom(_)
ExpectedFrom(k) ==
    IF k > Len(snap) THEN <<>>
    ELSE [i \in 1..Len(Targets(k)) |->
             [pos |-> k, sub |-> Targets(k)[i], out |-> "ok"]]
         \o ExpectedFrom(k + 1)

IsPrefix(a, b) == Len(a) <= Len(b) /\ a = SubSeq(b, 1, Len(a))

NoCallbackRaised == \A i \in Idx : delivered[i].out = "ok"

RegistryUnchanged == ~regChanged

Occurrences(seq, x) == Cardinality({i \in 1..Len(seq) : seq[i] = x})

InNoList(s) == \A f \in DOMAIN subscriptions : s \notin Range(subscriptions[f])

Without(seq, s) == SelectSeq(seq, LAMBDA x : x # s)

\* ------------------------------------------------------------------ claims

\* C1: when a process() call ends and during it no callback raised, no event
\* was enqueued (the events were all enqueued between the calls) and the
\* registry was not changed, the call returned normally, it delivered every
\* queued event exactly once to every live subscription of the event's type,
\* the events in enqueue order, and the queue is empty.
C1_AllDeliveredOnceInOrder ==
    (pc = "done" /\ NoCallbackRaised /\ ~enqueued /\ RegistryUnchanged)
        => (err = "none" /\ event_queue = <<>> /\ delivered = ExpectedFrom(1))

C1_Witness ==
    /\ pc = "done" /\ NoCallbackRaised /\ ~enqueued /\ RegistryUnchanged
    /\ Len(snap) = 2
    /\ Len(delivered) = 4

\* C2 (as claimed): a pass during which a callback enqueued an event, and no
\* callback raised, completes normally and leaves the new event queued.
C2_SnapshotSemantics ==
    (pc = "done" /\ enqueued /\ NoCallbackRaised)
        => (err = "none" /\ event_queue # <<>>)

\* C3: a subscription is only ever handed, by callback or into its pull
\* queue, events whose type is one of the atomic flags of its type set, and a
\* pass that returned normally with the registry unchanged has handed it every
\* such event of the queue.
C3_CompositeTypeFilter ==
    /\ \A i \in Idx : IsFor(delivered[i].sub, delivered[i].pos)
    /\ \A s \in Subs : \A i \in 1..Len(queue[s]) :
           evtype[queue[s][i]] \in FlagsOf(types[s])
    /\ (pc = "done" /\ err = "none" /\ RegistryUnchanged)
           => \A k \in 1..Len(snap) : \A s \in Subs :
                  (~terminated[s] /\ IsFor(s, k))
                      => \E i \in Idx : delivered[i].pos = k /\ delivered[i].sub = s

C3_Witness ==
    /\ pc = "done" /\ err = "none" /\ RegistryUnchanged
    /\ Len(snap) = 2
    /\ EvType(1) = MouseClick
    /\ EvType(2) = Tick
    /\ \E s \in Subs :
           /\ types[s] = KeyPress + MouseClick
           /\ ~callback[s]
           /\ SentTo(1) = <<s>>
           /\ SentTo(2) = <<>>
           /\ queue[s] = <<snap[1]>>

\* C4 (as claimed): a pass that returned normally with the registry unchanged
\* has delivered every event to every live subscription registered under any
\* atomic flag of the event's type, composite event types included.
C4_PerFlagLookup ==
    (pc = "done" /\ err = "none" /\ RegistryUnchanged)
        => \A k \in 1..Len(snap) : \A s \in Subs :
               (~terminated[s] /\ FlagsOf(EvType(k)) \cap FlagsOf(types[s]) # {})
                   => \E i \in Idx : delivered[i].pos = k /\ delivered[i].sub = s

\* C5 (as claimed): when a callback signals that the event is to be propagated
\* no further, process() does not raise: it finishes normally with the queue
\* empty.
C5_SuppressionHandled ==
    (pc = "done" /\ \E i \in Idx : delivered[i].out = "EventSuppressFurtherProcessing")
        => (err = "none" /\ event_queue = <<>>)

\* C6: a callback that raised an ordinary error is the last delivery of its
\* process() call: the call has ended with that error (not swallowed), no
\* later subscriber and no later event was served, the callback not retried.
C6_ErrorPropagates ==
    \A i \in Idx :
        delivered[i].out = "Error"
            => (i = Len(delivered) /\ pc = "done" /\ err = "Error")

C6_Witness ==
    /\ pc = "done" /\ err = "Error"
    /\ qi < Len(snap)
    /\ si < Len(CurList)
    /\ delivered[Len(delivered)].out = "Error"

\* C7: kill() takes the subscription out of every list of the registry,
\* keeps the order of the others and sets terminated; a terminated
\* subscription is in no list, stays terminated, and no later step calls its
\* callback or appends to its pull queue.
C7_Step ==
    \A s \in Subs :
        /\ (~terminated[s] /\ terminated'[s])
               => /\ DOMAIN subscriptions' = DOMAIN subscriptions
                  /\ \A f \in DOMAIN subscriptions :
                         subscriptions'[f] = Without(subscriptions[f], s)
        /\ terminated[s]
               => /\ terminated'[s]
                  /\ Len(queue'[s]) <= Len(queue[s])
                  /\ Len(delivered') > Len(delivered)
                         => delivered'[Len(delivered')].sub # s

C7_KilledGetsNothing ==
    /\ [](\A s \in Subs : terminated[s] => InNoList(s))
    /\ [][C7_Step]_vars

C7_Witness ==
    /\ pc = "done" /\ err = "none" /\ RegistryUnchanged
    /\ \E s \in Subs : \E k \in 1..Len(snap) :
           /\ terminated[s]
           /\ IsFor(s, k)
           /\ SentTo(k) # <<>>
           /\ s \notin Range(SentTo(k))

\* C8: every subscription that was not killed is exactly once in the list of
\* each atomic flag of its type set and in no other list, a killed one is in
\* no list, and the registry is keyed by atomic flags.
C8_RegistryInvariant ==
    /\ DOMAIN subscriptions \subseteq EventTypes
    /\ \A f \in DOMAIN subscriptions : Range(subscriptions[f]) \subseteq Subs
    /\ \A s \in Subs : \A f \in EventTypes :
           Occurrences(list_subscriptions(f), s)
               = IF ~terminated[s] /\ f \in FlagsOf(types[s]) THEN 1 ELSE 0

C8_Witness ==
    /\ pc = "done"
    /\ delivered # <<>>
    /\ \E s \in Subs : \E k \in Subs :
           /\ terminated[k]
           /\ types[k] = KeyPress + MouseClick
           /\ ~terminated[s]
           /\ types[s] = KeyPress + MouseClick
           /\ list_subscriptions(KeyPress) = <<s>>
           /\ list_subscriptions(MouseClick) = <<s>>

\* C9 (as claimed): a live subscription on which prioritize() was called is
\* the first of the list of each of its types.
C9_PrioritizedIsFirst ==
    (prioritized # 0 /\ ~terminated[prioritized])
        => \A f \in FlagsOf(types[prioritized]) :
               list_subscriptions(f) # <<>> /\ Head(list_subscriptions(f)) = prioritized

\* C10: during a pass in which the registry is not changed, each event has
\* been delivered to a prefix of the live subscriptions of its type taken in
\* the order of their creation, and to all of them once its turn is over.
C10_RegistrationOrder ==
    (pc # "idle" /\ RegistryUnchanged)
        => \A k \in 1..qi :
               /\ IsPrefix(SentTo(k), Targets(k))
               /\ (k < qi \/ pc \in {"events", "clear"}
                          \/ (pc = "done" /\ err \in {"none", "RuntimeError"}))
                      => SentTo(k) = Targets(k)

C10_Witness ==
    /\ pc = "subs" /\ RegistryUnchanged
    /\ qi = 2
    /\ SentTo(qi) = <<1, 2>>

\* C11: once the iterated pull-mode subscription is killed, no poll yields an
\* item any more, whatever its pull queue holds, and the next time the loop
\* head is reached (the next poll, or the end of the wait the kill came
\* during) the iteration ends with StopAsyncIteration; it ends in no other
\* way, and the leftover items stay in the queue.
C11_Step ==
    /\ terminated[It] => (yielded' = yielded /\ queue'[It] = queue[It])
    /\ (terminated[It] /\ apc \in {"out", "loop"} /\ apc' # apc)
           => (apc' = "stopped" /\ err' = "StopAsyncIteration")
    /\ (apc # "stopped" /\ apc' = "stopped") => terminated[It]
    /\ apc = "stopped" => apc' = "stopped"

C11_KilledIterationStops == [][C11_Step]_vars

C11_Witness ==
    /\ apc = "stopped"
    /\ err = "StopAsyncIteration"
    /\ yielded # <<>>
    /\ queue[It] # <<>>

\* C12: what the iteration has yielded is at all times a prefix of the
\* events dispatched for one of the subscription's types, in dispatch order;
\* every wait is followed by a process() call over the queue as it then is;
\* and the k-th event dispatched for it is eventually the k-th event yielded,
\* unless the subscription is killed.
C12_Step ==
    /\ (apc = "sleep" /\ apc' # apc) => apc' = "woke"
    /\ (apc = "woke" /\ apc' # apc)
           => (apc' = "pump" /\ pc' = "events" /\ snap' = event_queue)
    /\ (apc = "pump" /\ apc' # apc) => (pc = "done" /\ apc' = "loop")

C12_Yields(k) ==
    Len(sent) >= k
        ~> (terminated[It] \/ (Len(yielded) >= k /\ yielded[k] = sent[k]))

Stream == yielded \o queue[It]

C14_Step ==
    /\ (apc = "out" /\ pc = "idle" /\ ~terminated[It]
          /\ queue[It] # <<>> /\ (apc' # apc \/ yielded' # yielded))
           => /\ apc' = "out"
              /\ yielded' = Append(yielded, Head(queue[It]))
              /\ queue'[It] = Tail(queue[It])
              /\ pc' = "idle"
              /\ event_queue' = event_queue
    /\ yielded' # yielded
           => (Len(yielded') = Len(yielded) + 1 /\ Stream' = Stream)
    /\ IsPrefix(Stream, Stream')

C14_PopOldest == [][C14_Step]_vars

C14_Witness ==
    /\ apc = "out"
    /\ pc = "idle"
    /\ Len(yielded) = 2
    /\ yielded[1] # yielded[2]
    /\ queue[It] = <<>>
    /\ event_queue = <<>>

\* C13: a poll of a subscription that has a callback ends with TypeError, not
\* with the end-of-iteration signal, at every poll, killed or not, and leaves
\* the event queue, the registry and the subscription as they were.
C13_Step ==
    \A s \in Subs :
        (callback[s] /\ Anext(s))
            => /\ err' = "TypeError"
               /\ UNCHANGED <<evtype, event_queue, types, callback, queue,
                              terminated, subscriptions>>

C13_CallbackNotIterable == [][C13_Step]_vars

C13_Witness ==
    /\ pc = "idle"
    /\ err = "TypeError"
    /\ \A s \in Subs : callback[s] /\ terminated[s]
    /\ Subs # {}

\* C15: Event(type) appends the new event to the queue once, Event(type,
\* dispatch=False) leaves the queue as it is, dispatch(event) appends the
\* event whether or not it is queued already, and a pass that returned
\* normally (nothing enqueued, registry unchanged) has delivered an event to
\* each live subscription of its type as many times as it was queued.
TimesQueued(e) == Occurrences(snap, e)

TimesDelivered(e, s) ==
    Cardinality({i \in Idx : delivered[i].sub = s /\ snap[delivered[i].pos] = e})

C15_Step ==
    /\ \A t \in EventTypeInputs : \A d \in BOOLEAN :
           EventInit(t, d)
               => event_queue' = IF d THEN Append(event_queue, Len(evtype) + 1)
                                 ELSE event_queue
    /\ \A e \in Events : Dispatch(e) => event_queue' = Append(event_queue, e)

C15_Pass ==
    (pc = "done" /\ err = "none" /\ ~enqueued /\ RegistryUnchanged)
        => \A e \in Events : \A s \in Subs :
               (~terminated[s] /\ evtype[e] \in FlagsOf(types[s]))
                   => TimesDelivered(e, s) = TimesQueued(e)

C15_DispatchAppends == []C15_Pass /\ [][C15_Step]_vars

C15_Witness ==
    /\ pc = "done" /\ err = "none" /\ ~enqueued /\ RegistryUnchanged
    /\ Len(evtype) = 1
    /\ snap = <<1, 1>>
    /\ \E s \in Subs : TimesDelivered(1, s) = 2

\* C17: a subscription is truthy exactly when it has a callback or its pull
\* queue holds an event: a pull-mode subscription is falsy when it is
\* created, truthy when an event was appended to its queue, and falsy again
\* when its last queued event was popped.
C17_Step ==
    \A s \in 1..Len(types') :
        ~callback'[s]
            => /\ s \notin Subs => ~Bool(s)'
               /\ (s \in Subs /\ Len(queue'[s]) > Len(queue[s])) => Bool(s)'
               /\ (s \in Subs /\ queue[s] # <<>> /\ queue'[s] = <<>>)
                      => (Bool(s) /\ ~Bool(s)')

C17_State == \A s \in Subs : Bool(s) <=> (callback[s] \/ Len(queue[s]) >= 1)

C17_Truthiness == []C17_State /\ [][C17_Step]_vars

C17_Witness ==
    /\ pc = "idle"
    /\ err = "none"
    /\ \E s \in Subs : ~callback[s] /\ ~Bool(s) /\ ~terminated[s]
    /\ \E s \in Subs : ~callback[s] /\ Bool(s) /\ Len(queue[s]) = 1

\* C16 (as claimed): an Event constructed with an explicit tick carries that
\* tick, whatever integer it is, 0 included.
C16_ExplicitTickKept == tickarg # NoTick => etick = tickarg[1]

\* C18 (as claimed): Transformer(foreground=(255,0,0)) is constructed, and in
\* a one-element container it turns the pixel ('x', black, black, 0) into
\* ('x', (255,0,0), black, 0).
RedForeground == [NoSlots EXCEPT !["foreground"] = Const(Red)]

PixelX == [char |-> "x", foreground |-> Black, background |-> Black, effects |-> 0]

SlotsOf(t) == [ch \in ChannelSet |-> t[ch]]

C18_ConstantForeground ==
    /\ (top = "init" /\ targ = RedForeground)
           => (terr = "none" /\ tf # <<>> /\ SlotsOf(tf[Len(tf)]) = RedForeground)
    /\ (top = "process" /\ tin = PixelX /\ Len(stack) = 1
          /\ SlotsOf(tf[stack[1]]) = RedForeground)
           => (terr = "none" /\ tout = [PixelX EXCEPT !["foreground"] = Red])

\* C19 (as claimed): after process() with a one-element stack, every channel
\* whose slot holds a constant has that constant as its value, also when the
\* constant is '' or 0, and every channel whose slot is None has the value it
\* had in the input pixel.
C19_ConstantOverwrites ==
    (top = "process" /\ terr = "none" /\ Len(stack) = 1)
        => \A ch \in ChannelSet :
               LET slot == tf[stack[1]][ch]
               IN /\ slot.kind = "const" => tout[ch] = slot.v
                  /\ slot.kind = "none" => tout[ch] = tin[ch]

\* C20: process() runs the Transformers in stack order, the first on the
\* pixel it was called with and each other one on the pixel the one before it
\* produced (its `pixel` and its `value` are that pixel's), and returns what
\* the last one produced; a stack whose first Transformer sets char to '#'
\* and whose second upper-cases `value` gives char '#' for every input.
SetsHash(t) == t["char"] = Fn("char", "hash") \/ t["char"] = Const("#")

C20_Chained ==
    (top = "process" /\ terr = "none")
        => /\ Len(trace) = Len(stack)
           /\ \A k \in 1..Len(trace) :
                  trace[k].in = IF k = 1 THEN tin ELSE trace[k - 1].out
           /\ tout = IF trace = <<>> THEN tin ELSE trace[Len(trace)].out
           /\ (Len(stack) = 2 /\ SetsHash(tf[stack[1]])
                 /\ tf[stack[2]]["char"] = Fn("char", "upper"))
                  => tout["char"] = "#"

C20_Witness ==
    /\ top = "process" /\ terr = "none"
    /\ Len(stack) = 2
    /\ stack[1] # stack[2]
    /\ tf[stack[1]]["char"] = Fn("char", "hash")
    /\ tf[stack[2]]["char"] = Fn("char", "upper")
    /\ tin["char"] = "a"
    /\ tout["char"] = "#"

\* --------------------------------------------- claims on the call arguments
\* The callable an entry of the history of calls stands for, and the names
\* it declares.
CalledSlot(i) == tf[stack[calls[i].k]][calls[i].ch]

Declares(i, name) == name \in Params(CalledSlot(i).f)

\* C21 (as claimed): a channel callable that declares `tick` is called by
\* process() without failure, with tick bound to the current logical tick or
\* to 0.
C21_TickBound ==
    top = "process"
        => \A i \in 1..Len(calls) :
               Declares(i, "tick")
                   => /\ calls[i].err = "none"
                      /\ "tick" \in DOMAIN calls[i].args
                      /\ calls[i].args["tick"] \in {0, get_current_tick}

\* C22: every channel callable that declares `pos` and is called by process()
\* is given the position process() was called with, whatever channel it is
\* put on and whatever the place of its Transformer in the stack.
C22_PosBound ==
    top = "process"
        => \A i \in 1..Len(calls) :
               (Declares(i, "pos") /\ calls[i].err = "none")
                   => /\ "pos" \in DOMAIN calls[i].args
                      /\ calls[i].args["pos"] = tpos

\* The four channels of the second Transformer of the stack were given a
\* position other than the origin.
C22_Witness ==
    /\ top = "process"
    /\ terr = "none"
    /\ tpos # Origin
    /\ Len(stack) = 2
    /\ \A ch \in ChannelSet :
           \E i \in 1..Len(calls) :
               /\ calls[i].k = 2
               /\ calls[i].ch = ch
               /\ Declares(i, "pos")
               /\ calls[i].args["pos"] = tpos

\* C23: process() on an empty stack, or on a stack of Transformers whose
\* four slots are all None, ends without failure and returns a pixel equal to
\* the one it was given; a pixel taken apart into its four values and built
\* again from them is the same pixel.
AllSlotsEmpty(item) == \A ch \in ChannelSet : Attrs(item)[ch].kind = "none"

C24_State == \A k \in 1..Len(stack) : IsTransformer(stack[k])

C24_Step ==
    \A item \in ItemInputs :
        ~IsTransformer(item)
            => /\ ContainerAppend(item) => (terr' = "TypeError" /\ stack' = stack)
               /\ \A i \in 0..Len(stack) :
                      ContainerInsert(i, item)
                          => (terr' = "TypeError" /\ stack' = stack)
               /\ \A i \in 1..Len(stack) :
                      ContainerSetItem(i, item)
                          => (terr' = "TypeError" /\ stack' = stack)

C24_OnlyTransformers == []C24_State /\ [][C24_Step]_vars

\* An item assignment into a stack of two was refused.
C24_Witness ==
    /\ top = "setitem"
    /\ terr = "TypeError"
    /\ Len(stack) = 2
    /\ stack[1] # stack[2]

\* C25: process() changes neither the stack nor the Transformers, and what
\* it returns is what the loop over the stack as it is at the call gives for
\* the arguments of the call: a call with the arguments of the call before
\* and an unchanged stack returns the same pixel (or fails the same way), and
\* a call made after the stack was changed returns the pixel of the new
\* stack, not the one computed before.
C25_Step ==
    top' = "process"
        => LET r == StackLoop(stack, tsource', tpos', tin', 1, <<>>, <<>>)
           IN /\ stack' = stack
              /\ tf' = tf
              /\ tin' \in PixelInputs
              /\ tout' = r.pixel
              /\ terr' = r.err
              /\ (SameArguments(tsource', tpos', tin') /\ last.state = StackState)
                     => (tout' = last.out /\ terr' = last.err)

C26_State ==
    (top = "process" /\ ~tsource.has_context)
        => \A i \in 1..Len(calls) :
               Declares(i, "context")
                   => /\ terr = "AttributeError"
                      /\ calls[i].err = "AttributeError"
                      /\ tout = NoPixel
                      /\ i = Len(calls)
                      /\ Len(trace) = calls[i].k - 1

C26_Step == top' = "process" => (stack' = stack /\ tf' = tf)

C26_ContextFailure == []C26_State /\ [][C26_Step]_vars

\* The first of two Transformers failed at its foreground, after its char was
\* computed and with a callable waiting in its effects slot.
C26_Witness ==
    /\ top = "process"
    /\ ~tsource.has_context
    /\ terr = "AttributeError"
    /\ Len(stack) = 2
    /\ Len(calls) = 2
    /\ calls[1] = Reached(1, "char", <<>>, "none")
    /\ calls[2].k = 1
    /\ calls[2].ch = "foreground"
    /\ Declares(2, "context")
    /\ tf[stack[1]]["effects"].kind = "call"
    /\ tout = NoPixel

\* The pixel the Transformer at position k of the stack was given.
Entering(k) == IF k = 1 THEN tin ELSE trace[k - 1].out

\* C29: a channel callable that declares the name of a channel is given the
\* value that channel has in the pixel its Transformer was given, also when
\* the Transformer has computed a new value for that channel before; `value`
\* is the value of the callable's own channel in that same pixel.
C29_CrossChannelRead ==
    top = "process"
        => \A i \in 1..Len(calls) :
               calls[i].err = "none"
                   => /\ \A name \in ChannelSet \cap DOMAIN calls[i].args :
                             calls[i].args[name] = Entering(calls[i].k)[name]
                      /\ "value" \in DOMAIN calls[i].args
                             => calls[i].args["value"]
                                    = Entering(calls[i].k)[calls[i].ch]

\* The background callable of the first Transformer was given the foreground
\* of the input pixel after the Transformer had computed another one, and its
\* char callable was given the char of the input pixel.
C29_Witness ==
    /\ top = "process"
    /\ terr = "none"
    /\ Len(calls) = 3
    /\ calls[1] = Reached(1, "char", [value |-> tin["char"]], "none")
    /\ calls[2].ch = "foreground"
    /\ calls[3] = Reached(1, "background", [foreground |-> tin["foreground"]], "none")
    /\ tout["foreground"] # tin["foreground"]
    /\ tout["background"] = tin["foreground"]
    /\ tout["char"] # tin["char"]

\* C30: the names bound for a channel callable are those of the signature
\* kept for that channel when the Transformer was constructed: the signatures
\* are derived from the arguments of the constructor, an assignment to a slot
\* leaves them as they are, and process() binds exactly the names of the kept
\* signature, whatever the callable the slot holds by then declares.
C30_Step ==
    /\ (top' = "init" /\ terr' = "none")
           => /\ Len(tf') = Len(tf) + 1
              /\ tf'[Len(tf')].signatures = Signatures(targ')
    /\ top' = "set"
           => \A t \in 1..Len(tf) : tf'[t].signatures = tf[t].signatures
    /\ top' = "process"
           => \A i \in 1..Len(calls') :
                  calls'[i].err \in {"none", "TypeError"}
                      => DOMAIN calls'[i].args
                             = tf[stack[calls'[i].k]].signatures[calls'[i].ch]

C30_SignatureKept == [][C30_Step]_vars

\* A char slot that was None at construction holds a callable declaring
\* `value`: it was called with no argument and the call failed.
C30_Witness ==
    /\ top = "process"
    /\ terr = "TypeError"
    /\ calls # <<>>
    /\ LET i == Len(calls)
       IN /\ calls[i].ch = "char"
          /\ Declares(i, "value")
          /\ tf[stack[calls[i].k]].signatures["char"] = {}
          /\ calls[i].args = <<>>

\* --------------------------------------------------- claims on the widgets
\* C27: on an ESC key press of a widget one of whose esc_callback raises
\* EventSuppressFurtherProcessing, _default_escape is not called: the widget
\* is neither killed nor marked cancelled nor done, and it keeps the focus it
\* had when the key arrived.
C27_Step ==
    (KeypressEsc /\ "suppresses" \in Range(esc_callbacks))
        => /\ "_default_escape" \notin Range(ran')
           /\ wterminated' = wterminated
           /\ cancelled' = cancelled
           /\ done' = done
           /\ kills' = kills
           /\ focus' = W

C27_EscapeSuppressed == [][C27_Step]_vars

\* A cancellable widget is alive and focused after an ESC that only its
\* suppressing callback saw.
C27_Witness ==
    /\ lastkey = "ESC"
    /\ ran = <<"suppresses">>
    /\ cancellable
    /\ focus = W
    /\ ~wterminated
    /\ ~cancelled
    /\ kills = 0

\* C28: `await widget` ends only in a step that finds done true, and a step
\* that finds it false leaves the await waiting; the step that ends it leaves
\* the widget terminated, having called kill() exactly when the widget was
\* not terminated yet, and it raises WidgetCancelled when the widget is
\* cancelled and returns the widget's value otherwise.  A widget is cancelled
\* only if it is cancellable, and then it is terminated.
Ended == {"returned", "raised"}

C28_Step ==
    /\ (Await /\ ~done) => aw' = "waiting"
    /\ (aw \notin Ended /\ aw' \in Ended)
           => /\ done
              /\ wterminated'
              /\ kills' = IF wterminated THEN kills ELSE kills + 1
              /\ cancelled' = cancelled
              /\ aw' = IF cancelled THEN "raised" ELSE "returned"
              /\ aresult' = IF cancelled THEN "WidgetCancelled" ELSE ValueOf

C28_State ==
    /\ cancelled => (cancellable /\ wterminated /\ done)
    /\ aw \in Ended => (done /\ wterminated)

C28_AwaitCompletes == []C28_State /\ [][C28_Step]_vars

\* The await of a widget that an ESC had cancelled raised WidgetCancelled
\* without a second kill().
C28_Witness ==
    /\ aw = "raised"
    /\ aresult = "WidgetCancelled"
    /\ cancelled
    /\ kills = 1

\* ------------------------------------------------ claims on the wake-up
\* C31: when the consumer wakes from the sleep it polls the terminal exactly
\* when KeyPress is one of the types of its subscription, with no process()
\* call begun yet; whatever the types, its next step is the process() call,
\* which finds the events of the poll in the queue, and it neither yields nor
\* looks at its queue again before that call has ended.
C31_Step ==
    /\ (apc = "sleep" /\ apc' # apc)
           => /\ apc' = "woke"
              /\ polled' = (KeyPress \in FlagsOf(types[It]))
              /\ pc' = "idle"
              /\ ~polled' => (evtype' = evtype /\ event_queue' = event_queue)
    /\ (apc = "woke" /\ apc' # apc)
           => /\ apc' = "pump"
              /\ polled' = polled
              /\ pc' = "events"
              /\ snap' = event_queue
    /\ apc \in {"woke", "pump"}
           => /\ yielded' = yielded
              /\ apc' \in {"woke", "pump", "loop", "failed"}
              /\ polled = (KeyPress \in FlagsOf(types[It]))

C31_WakePumps == [][C31_Step]_vars

\* The process() call of a wake delivers the key the poll of that wake found.
C31_Witness ==
    /\ apc = "pump"
    /\ polled
    /\ pc = "subs"
    /\ snap # <<>>
    /\ evtype[snap[Len(snap)]] = KeyPress
    /\ sent # <<>>
    /\ sent[Len(sent)] = snap[Len(snap)]

\* ------------------------------------------- claims on a pass that failed
\* The errors a callback raises, as against the RuntimeError of the iterator.
CallbackErrors == {"Error", "EventSuppressFurtherProcessing"}

\* C32: when process() has ended with the error of a callback, the queue
\* begins with the events it held when process() was called, in their order;
\* the caller gets the queue as it is, until the next process() call nothing
\* leaves the queue, and that call iterates the queue from its first event:
\* the events delivered before the failure are delivered again.
C32_State ==
    (pc = "done" /\ err \in CallbackErrors) => IsPrefix(snap, event_queue)

C32_Step ==
    /\ (pc = "done" /\ err \in CallbackErrors /\ pc' = "idle")
           => event_queue' = event_queue
    /\ (pc = "idle" /\ err \in CallbackErrors)
           => /\ IsPrefix(event_queue, event_queue')
              /\ pc' = "events" => (snap' = event_queue /\ qi' = 0)
    /\ (pc = "events" /\ err \in CallbackErrors /\ qi = 0 /\ snap # <<>>
            /\ event_queue = snap /\ pc' # pc)
           => (pc' = "subs" /\ qi' = 1 /\ cur' = evtype[snap[1]])

C32_QueueKept == []C32_State /\ [][C32_Step]_vars

\* The pass after a failed one is delivering the first event of the queue.
C32_Witness ==
    /\ pc = "subs" /\ err = "Error" /\ qi = 1
    /\ delivered # <<>> /\ delivered[1].pos = 1
    /\ Len(snap) = 2

\* ----------------------------------- claims on a kill during the delivery
\* The deliveries of the event at position q of the pass to subscription s.
DeliveriesOf(q, s) == {i \in Idx : delivered[i].pos = q /\ delivered[i].sub = s}

\* C33 (as claimed): when the loop over the subscribers of an event ends, and
\* a subscription for the type of the event has been killed, every live
\* subscription registered for that type has been handed the event exactly
\* once in this pass.
C33_Step ==
    (/\ pc = "subs" /\ pc' = "events"
     /\ \E k \in Subs : terminated[k] /\ cur \in FlagsOf(types[k]))
        => \A s \in Range(CurList) : Cardinality(DeliveriesOf(qi, s)) = 1

C33_KillSkipsNobody == [][C33_Step]_vars

\* ------------------------------------------- the terminal-resize handler
\* SpecSignal: subscriptions whose callbacks return normally, process(), and
\* the SIGWINCH handler, which the interpreter runs between any two steps of
\* the main thread.
TerminalSizeChange == 128

SignalTypeInputs == {Tick, TerminalSizeChange}

\* window_change_handler: Event(TerminalSizeChange, size=..., dispatch=True).
window_change_handler ==
    /\ NewEvent(TerminalSizeChange, TRUE)
    /\ UNCHANGED <<types, callback, queue, terminated, subscriptions, passv,
                   prioritized, err>>
    /\ UNCHANGED ext

SignalNext ==
    \/ \E t \in SignalTypeInputs, cb \in BOOLEAN : SubscriptionInit(t, cb)
    \/ EventInit(Tick, TRUE)
    \/ window_change_handler
    \/ ProcessBegin
    \/ ProcessNextEvent
    \/ PullNextSubscription
    \/ ProcessClear
    \/ ProcessReturn

SpecSignal == Init /\ [][SignalNext]_vars

\* The handler ran since process() was called: the queue is no longer the one
\* the pass began with (no callback of this specification enqueues).
Interrupted == pc \in {"events", "subs", "clear"} /\ event_queue # snap

\* C34 (as claimed): a pass the handler interrupted ends normally, and the
\* resize events that the clearing of the queue removes have been handed to
\* every TerminalSizeChange subscription in this pass.
C34_Step ==
    /\ (Interrupted /\ pc' = "done") => err' = "none"
    /\ (pc = "clear" /\ pc' = "done")
           => \A i \in 1..Len(event_queue) :
                  evtype[event_queue[i]] = TerminalSizeChange
                      => \A s \in Range(list_subscriptions(TerminalSizeChange)) :
                             DeliveriesOf(i, s) # {}

C34_ResizeNeverLost == [][C34_Step]_vars

\* ------------------------------------------- the SIGWINCH registration
\* SpecSigwinch: _register_sigwinch and _unregister_sigwinch called in any
\* order, in a process that had any handler for SIGWINCH, and the signal
\* arriving between the calls.
MaxRegistered == 5

InitSigwinch ==
    /\ DispatcherInit
    /\ PullInit
    /\ TickInit
    /\ TransformInit
    /\ WidgetsInit
    /\ ReactorInit
    /\ LinesInit
    /\ SelectorInit
    /\ \E posix \in BOOLEAN, h \in HandlerInputs : SigwinchImported(posix, h)

\* bool(handler): Handlers.SIG_DFL is the integer 0 and None is None.
HandlerTruthy(h) == h \notin {"SIG_DFL", "None"}

\* _register_sigwinch, lines 163-177.
register_sigwinch ==
    /\ sigwinch_counter < MaxRegistered
    /\ IF ~has_sigwinch
       THEN UNCHANGED <<sigwinch, sigwinch_counter, original_sigwinch>>
       ELSE /\ original_sigwinch' = IF sigwinch_counter = 0 THEN sigwinch
                                    ELSE original_sigwinch
            /\ sigwinch_counter' = sigwinch_counter + 1
            /\ sigwinch' = "window_change_handler"
    /\ UNCHANGED <<has_sigwinch, first_sigwinch, evars, notsig>>

\* _unregister_sigwinch, lines 180-189.
unregister_sigwinch ==
    /\ IF ~has_sigwinch \/ sigwinch_counter = 0
       THEN UNCHANGED <<sigwinch, sigwinch_counter>>
       ELSE /\ sigwinch_counter' = sigwinch_counter - 1
            /\ sigwinch' = IF /\ sigwinch_counter' = 0
                              /\ HandlerTruthy(original_sigwinch)
                           THEN original_sigwinch
                           ELSE sigwinch
    /\ UNCHANGED <<has_sigwinch, original_sigwinch, first_sigwinch, evars,
                   notsig>>

\* The terminal is resized: the installed handler runs, and if it is
\* window_change_handler an event is queued.
Resize ==
    /\ has_sigwinch
    /\ IF sigwinch = "window_change_handler"
       THEN NewEvent(TerminalSizeChange, TRUE)
       ELSE UNCHANGED <<evtype, event_queue>>
    /\ UNCHANGED <<types, callback, queue, terminated, subscriptions, passv,
                   prioritized, err>>
    /\ UNCHANGED ext

SigwinchNext ==
    \/ register_sigwinch
    \/ unregister_sigwinch
    \/ Resize

SpecSigwinch == InitSigwinch /\ [][SigwinchNext]_vars

\* C35 (as claimed): the counter is never negative and an unregister at 0
\* changes nothing; window_change_handler is the installed handler whenever
\* the counter is positive; and whenever the counter is 0 the installed
\* handler is the one that was installed before the first registration.
C35_State ==
    /\ sigwinch_counter >= 0
    /\ (has_sigwinch /\ sigwinch_counter > 0) => sigwinch = "window_change_handler"
    /\ sigwinch_counter = 0 => sigwinch = first_sigwinch

C35_Step ==
    (sigwinch_counter = 0 /\ sigwinch_counter' = 0) => sigv' = sigv

C35_HandlerRestored == []C35_State /\ [][C35_Step]_vars

\* ------------------------------------------------ the reactor and its widgets
\* SpecReactor: widgets of the base class Widget are constructed, clicked,
\* given and denied the focus, sent TAB and SHIFT+TAB, and killed.
MaxCopies == 2

\* The focus_position argument of Widget.__init__: left out, None, or 0.
PositionInputs == {"Ellipsis", "None", "0"}

Constructed == 1..nwidgets

\* The reactor's focus and the transformer stacks, which the focus setters
\* of the reactor and of the widgets change together.
FocusState == [focus |-> reactor_focus, tr |-> transformers]

\* Widget.focus = False, lines 803-807: list.remove takes the first copy.
WidgetUnfocus(st, w) ==
    [focus |-> IF st.focus = w THEN 0 ELSE st.focus,
     tr |-> IF "focus_transformer" \in Range(st.tr[w])
            THEN [st.tr EXCEPT ![w] = RemoveFirst(@, "focus_transformer")]
            ELSE st.tr]

\* WidgetEventReactor.focus = widget, lines 662-667.
ReactorFocus(st, w) ==
    LET prev == st.focus
        st1 == IF prev # 0 /\ prev # w THEN WidgetUnfocus(st, prev) ELSE st
    IN [st1 EXCEPT !.focus = w]

\* Widget.focus = True, lines 798-802 (a Widget has no attribute "subs").
WidgetFocus(st, w) ==
    LET st1 == ReactorFocus(st, w)
    IN [st1 EXCEPT !.tr[w] = Append(@, "focus_transformer")]

\* Widget.focus, line 794.
HasFocus(w) == reactor_focus = w

IndexOf(seq, x) == CHOOSE i \in 1..Len(seq) : seq[i] = x /\ \A j \in 1..(i-1) : seq[j] # x

RemoveAll(seq, x) == SelectSeq(seq, LAMBDA y : y # x)

\* Variant: the index stops at the ends of the list instead of wrapping.
tab_target_clamped(w, d) ==
    LET index == IF w \in Range(focus_order) THEN IndexOf(focus_order, w) - 1
                 ELSE last_focused_index
        moved == index + d
    IN IF moved < 0 THEN 0
       ELSE IF moved >= Len(focus_order) THEN Len(focus_order) - 1
       ELSE moved

\* _tab_change_focus, lines 672-676: the Python index the focus goes to.
tab_target(w, d) ==
    LET index == IF w \in Range(focus_order) THEN IndexOf(focus_order, w) - 1
                 ELSE last_focused_index
    IN (index + d) % Len(focus_order)

SetFocusState(st) ==
    /\ reactor_focus' = st.focus
    /\ transformers' = st.tr

\* _tab_change_focus(widget, op) with op adding d, lines 669-678.
tab_change_focus(w, d) ==
    IF focus_order = <<>>
    THEN UNCHANGED <<reactor_focus, transformers, last_focused_index>>
    ELSE LET index == tab_target(w, d)
             target == focus_order[index + 1]
         IN /\ Len(transformers[target]) < MaxCopies
            /\ SetFocusState(WidgetFocus(FocusState, target))
            /\ last_focused_index' = index

\* The successive focus_next calls made on the focused widget, from the
\* widget the first of them was made on.
RingAfter(w) ==
    IF /\ w # 0
       /\ w = reactor_focus
       /\ focus_order # <<>>
       /\ Len(ring) <= Len(focus_order)
    THEN (IF ring = <<>> THEN <<w>> ELSE ring) \o <<reactor_focus'>>
    ELSE <<>>

\* Widget.__init__, lines 759-770: the key subscription, the registration
\* with the reactor (lines 625-629) and the focus position (lines 774-782,
\* 631-634).
ReactorWidgetInit(focus_position) ==
    LET w == nwidgets + 1
        s == Len(types) + 1
        appended == Append(focus_order, w)
    IN /\ nwidgets < MaxWidgets
       /\ nwidgets' = w
       /\ types' = Append(types, KeyPress)
       /\ callback' = Append(callback, TRUE)
       /\ queue' = Append(queue, <<>>)
       /\ terminated' = Append(terminated, FALSE)
       /\ subscriptions' = Register(subscriptions, s, KeyPress)
       /\ subkills' = Append(subkills, 0)
       /\ wsubscriptions' = [wsubscriptions EXCEPT ![w] = <<s>>]
       /\ registry' = Append(registry, w)
       /\ SetFocusState(ReactorFocus(FocusState, w))
       /\ focus_order' = CASE focus_position = "Ellipsis" -> appended
                           [] focus_position = "None" -> RemoveFirst(appended, w)
                           [] OTHER -> <<w>> \o RemoveAll(appended, w)
       /\ rerr' = "none"
       /\ ring' = <<>>
       /\ UNCHANGED <<last_focused_index, wdone, wterm, wkills>>
       /\ UNCHANGED <<evtype, event_queue, passv, prioritized, err, notreact>>

ReactorFrame ==
    /\ rerr' = "none"
    /\ UNCHANGED <<nwidgets, registry, focus_order, wsubscriptions, wdone, wterm,
                   wkills, subkills>>
    /\ UNCHANGED <<evars, notreact>>

\* A click inside widget w's rectangle: inner_click, lines 642-656, finds the
\* widget in the registry and calls _default_click, lines 784-786.
Click(w) ==
    /\ w \in Range(registry)
    /\ IF ~HasFocus(w)
       THEN /\ Len(transformers[w]) < MaxCopies
            /\ SetFocusState(WidgetFocus(FocusState, w))
       ELSE UNCHANGED <<reactor_focus, transformers>>
    /\ ring' = <<>>
    /\ UNCHANGED last_focused_index
    /\ ReactorFrame

\* widget.focus = value, by the application, on a widget that was not killed.
SetFocus(w, v) ==
    /\ w \in Constructed
    /\ wkills[w] = 0
    /\ IF v
       THEN /\ Len(transformers[w]) < MaxCopies
            /\ SetFocusState(WidgetFocus(FocusState, w))
       ELSE SetFocusState(WidgetUnfocus(FocusState, w))
    /\ ring' = <<>>
    /\ UNCHANGED last_focused_index
    /\ ReactorFrame

\* WidgetEventReactor.focus_next(widget), lines 680-681; it is what TAB does
\* with the focused widget (_default_tab, lines 833-835).
focus_next(w) ==
    /\ w \in Constructed
    /\ tab_change_focus(w, 1)
    /\ ring' = RingAfter(w)
    /\ ReactorFrame

\* WidgetEventReactor.focus_previous(widget), lines 683-684 (SHIFT+TAB).
focus_previous(w) ==
    /\ w \in Constructed
    /\ tab_change_focus(w, 0 - 1)
    /\ ring' = <<>>
    /\ ReactorFrame

\* Variant: kill() kills its subscriptions whether they are terminated or
\* not, and keeps them in its list.
ReactorKillAgain(w) ==
    LET deleted == w \in Range(registry)
        subs == wsubscriptions[w]
    IN /\ w \in Constructed
       /\ wkills[w] < MaxKills
       /\ wkills' = [wkills EXCEPT ![w] = @ + 1]
       /\ registry' = IF deleted THEN RemoveAll(registry, w) ELSE registry
       /\ focus_order' = IF deleted THEN RemoveAll(focus_order, w) ELSE focus_order
       /\ SetFocusState(WidgetUnfocus(FocusState, w))
       /\ wdone' = [wdone EXCEPT ![w] = TRUE]
       /\ KillSubscription(subs[1])
       /\ subkills' = [subkills EXCEPT ![subs[1]] = @ + 1]
       /\ rerr' = IF KillOk(subs[1]) THEN "none" ELSE "ValueError"
       /\ UNCHANGED wsubscriptions
       /\ wterm' = [wterm EXCEPT ![w] = TRUE]
       /\ ring' = <<>>
       /\ UNCHANGED <<nwidgets, last_focused_index>>
       /\ UNCHANGED <<evtype, event_queue, types, callback, queue, passv,
                      prioritized, err, notreact>>

\* Widget.kill(), lines 809-822, with the reactor's __delitem__, lines
\* 620-623; a Widget owns at most the subscription of line 759.
ReactorKill(w) ==
    LET deleted == w \in Range(registry)
        subs == wsubscriptions[w]
        live == subs # <<>> /\ ~terminated[subs[1]]
    IN /\ w \in Constructed
       /\ wkills[w] < MaxKills
       /\ wkills' = [wkills EXCEPT ![w] = @ + 1]
       /\ registry' = IF deleted THEN RemoveAll(registry, w) ELSE registry
       /\ focus_order' = IF deleted THEN RemoveAll(focus_order, w) ELSE focus_order
       /\ SetFocusState(WidgetUnfocus(FocusState, w))
       /\ wdone' = [wdone EXCEPT ![w] = TRUE]
       /\ IF live
          THEN /\ KillSubscription(subs[1])
               /\ subkills' = [subkills EXCEPT ![subs[1]] = @ + 1]
               /\ rerr' = IF KillOk(subs[1]) THEN "none" ELSE "ValueError"
          ELSE /\ UNCHANGED <<subscriptions, terminated, subkills>>
               /\ rerr' = "none"
       /\ wsubscriptions' = [wsubscriptions EXCEPT ![w] = <<>>]
       /\ wterm' = [wterm EXCEPT ![w] = TRUE]
       /\ ring' = <<>>
       /\ UNCHANGED <<nwidgets, last_focused_index>>
       /\ UNCHANGED <<evtype, event_queue, types, callback, queue, passv,
                      prioritized, err, notreact>>

ReactorNext ==
    \/ \E p \in PositionInputs : ReactorWidgetInit(p)
    \/ \E w \in Widgets : Click(w)
    \/ \E w \in Widgets, v \in BOOLEAN : SetFocus(w, v)
    \/ \E w \in Widgets : focus_next(w)
    \/ \E w \in Widgets : focus_previous(w)
    \/ \E w \in Widgets : ReactorKill(w)

SpecReactor == Init /\ [][ReactorNext]_vars

\* ------------------------------------------------ claims on the reactor
\* C36 (as claimed): a widget that does not have the focus has no copy of
\* its focus transformer in the transformer stack of its sprite.
C36_UnfocusedBare ==
    \A w \in Constructed :
        ~HasFocus(w) => "focus_transformer" \notin Range(transformers[w])

\* The widget after and the widget before w in focus_order, round the ends.
Following(w) ==
    LET i == IndexOf(focus_order, w)
    IN IF i = Len(focus_order) THEN focus_order[1] ELSE focus_order[i + 1]

Preceding(w) ==
    LET i == IndexOf(focus_order, w)
    IN IF i = 1 THEN focus_order[Len(focus_order)] ELSE focus_order[i - 1]

Distinct(seq) == \A i, j \in 1..Len(seq) : seq[i] = seq[j] => i = j

\* C37: with each widget once in focus_order, focus_next(w) gives the focus
\* to the widget after w and focus_previous(w) to the widget before w, round
\* the ends; as many focus_next calls as focus_order is long, each on the
\* focused widget, have focused every widget of focus_order once and are back
\* at the first; and never do two widgets have the focus.
C37_State ==
    /\ Cardinality({w \in Widgets : HasFocus(w)}) <= 1
    /\ (/\ Distinct(focus_order)
        /\ Len(ring) = Len(focus_order) + 1
        /\ ring[1] \in Range(focus_order))
           => /\ ring[Len(ring)] = ring[1]
              /\ {ring[i] : i \in 2..Len(ring)} = Range(focus_order)

C37_Step ==
    \A w \in Range(focus_order) :
        Distinct(focus_order)
            => /\ focus_next(w) => (HasFocus(Following(w)))'
               /\ focus_previous(w) => (HasFocus(Preceding(w)))'

C37_FocusRing == []C37_State /\ [][C37_Step]_vars

\* Three widgets in an order that is not the order of construction, and the
\* focus has gone round them.
C37_Witness ==
    /\ Len(focus_order) = 3 /\ focus_order[1] = 3
    /\ Len(ring) = 4 /\ ring[1] = 1 /\ ring[2] = 3

\* The subscription widget w made at line 759: only widgets subscribe here,
\* one subscription each, so it is the w-th subscription.
KeySubscription(w) == w

\* C38: a widget that was killed has an empty subscription list, its
\* subscription was killed once, is terminated and in no list of the event
\* registry; the widget is neither in the reactor's registry nor in
\* focus_order, has not the focus, and is done and terminated; and no kill,
\* the second included, killed a subscription twice or ended with an error.
C38_Killed ==
    /\ \A w \in Constructed :
           wkills[w] >= 1
               => /\ wsubscriptions[w] = <<>>
                  /\ subkills[KeySubscription(w)] = 1
                  /\ terminated[KeySubscription(w)]
                  /\ \A f \in DOMAIN subscriptions :
                         KeySubscription(w) \notin Range(subscriptions[f])
                  /\ w \notin Range(registry)
                  /\ w \notin Range(focus_order)
                  /\ ~HasFocus(w)
                  /\ wdone[w] /\ wterm[w]
    /\ \A s \in 1..Len(subkills) : subkills[s] <= 1
    /\ rerr = "none"

\* A focused widget was killed twice while another lives on.
C38_Witness ==
    /\ nwidgets = 2
    /\ wkills[2] = 2 /\ wkills[1] = 0
    /\ reactor_focus = 0
    /\ registry = <<1>>
    /\ subscriptions[KeyPress] = <<1>>

\* ------------------------------------------------ the soft lines
\* SpecLines: keys typed into an Editable at any cursor index, in insertion
\* and in overwrite mode; the class cache keeps what a cached method gave
\* until a method marked `invalidate` is called.
MaxTyped == 5

\* The keys typed: a printable character or ENTER.
LineKeyInputs == {"a", "ENTER"}

\* Editable.text_space, lines 503-505.
text_space == HardLines * Width

Min2(a, b) == IF a < b THEN a ELSE b

Max2(a, b) == IF a > b THEN a ELSE b

\* s[:i] and s[i:] of Python, for i >= 0.
Upto(s, i) == SubSeq(s, 1, Min2(i, Len(s)))

From(s, i) == SubSeq(s, i + 1, Len(s))

DropLast(s) == SubSeq(s, 1, Len(s) - 1)

\* The while loop of _soft_lines_spams, lines 232-243, for one soft line.
RECURSIVE SpamWhile(_)
SpamWhile(s) ==
    IF ~(s.len > s.acc) THEN s
    ELSE IF s.hli + 1 >= HardLines
         THEN [s EXCEPT !.hli = @ + 1, !.pop = (s.len = 0 /\ s.last)]
         ELSE SpamWhile([s EXCEPT
                  !.hli = @ + 1,
                  !.hmap = Append(@, <<s.i, s.offset>>),
                  !.acc = @ + Width + (IF @ = 0 - 1 THEN 1 ELSE 0),
                  !.hidx = Append(@, Width + @[Len(@)]),
                  !.spam = @ + 1,
                  !.offset = @ + 1])

\* The for loop of _soft_lines_spams, lines 228-253, from soft line i on; it
\* pops an empty last soft line that no hard line is left for (line 236).
RECURSIVE SpamFor(_, _, _)
SpamFor(soft, i, c) ==
    IF i >= Len(soft) THEN [c EXCEPT !.soft = soft]
    ELSE LET line == soft[i + 1]
             islast == i = Len(soft) - 1
             w == SpamWhile([i |-> i, len |-> Len(line), last |-> islast,
                             acc |-> 0 - 1, spam |-> 0, offset |-> 0,
                             hli |-> c.hli, hmap |-> c.hmap, hidx |-> c.hidx,
                             pop |-> FALSE])
             extra == ~w.pop /\ Len(line) = w.acc /\ islast
             hli == IF extra THEN w.hli + 1 ELSE w.hli
             maps == extra /\ hli < HardLines
         IN SpamFor(IF w.pop THEN DropLast(soft) ELSE soft, i + 1,
                [spams |-> Append(c.spams, w.spam + (IF extra THEN 1 ELSE 0)),
                 hmap |-> IF maps THEN Append(w.hmap, <<i, w.offset + 1>>)
                          ELSE w.hmap,
                 smap |-> Append(c.smap, c.hli + 1),
                 hidx |-> IF maps THEN Append(w.hidx, Width + w.hidx[Len(w.hidx)])
                          ELSE w.hidx,
                 hli |-> hli,
                 soft |-> soft])

\* _soft_lines_spams(): spams, hard_line_map (hmap[h + 1] for hard line h),
\* soft_line_map, hard_line_indexes, and the soft lines it leaves.
soft_lines_spams(soft) ==
    SpamFor(soft, 0, [spams |-> <<>>, hmap |-> <<>>, smap |-> <<>>,
                      hidx |-> <<0>>, hli |-> 0 - 1, soft |-> soft])

\* _hard_line_capacity_for_given_soft_line, lines 323-337, on the cached
\* maps c: every hard line is Width long.
Capacity(c, line) ==
    LET known == line < Len(c.spams)
        n == IF known THEN c.spams[line + 1] ELSE 0
        hli == c.smap[line + 1]
        InRange(k) == known /\ (k <= 0 \/ hli + k <= HardLines)
    IN IF line >= Len(c.smap) THEN [err |-> "KeyError", v |-> 0]
       ELSE IF InRange(n) THEN [err |-> "none", v |-> Width * Max2(n, 0)]
       ELSE IF InRange(n - 1) THEN [err |-> "none", v |-> Width * Max2(n - 1, 0)]
       ELSE [err |-> "TextDoesNotFit", v |-> 0]

RECURSIVE HardLines_(_, _, _)
HardLines_(c, i, acc) ==
    IF i >= Len(c.soft) THEN [err |-> "none", raw |-> acc]
    ELSE LET cap == Capacity(c, i)
             line == c.soft[i + 1]
         IN IF cap.err # "none" THEN [err |-> cap.err, raw |-> acc]
            ELSE HardLines_(c, i + 1,
                     acc \o line \o Spaces(Max2(cap.v - Len(line), 0)))

\* Lines 190-193: the hard lines built are stored as the raw value if they
\* fit the text space.
StoreRaw(c, built, raw) ==
    IF built.err # "none"
    THEN [err |-> built.err, soft |-> c.soft, raw |-> raw]
    ELSE IF Len(built.raw) > text_space
    THEN [err |-> "TextDoesNotFit", soft |-> c.soft, raw |-> raw]
    ELSE [err |-> "none", soft |-> c.soft, raw |-> built.raw]

\* Lines 185-188: the hard lines are built on the maps c.
BuildRaw(c, raw) == StoreRaw(c, HardLines_(c, 0, <<>>), raw)

\* _hard_load_from_soft_lines, lines 181-193: the cache is invalidated, the
\* hard lines are built and, if they fit, stored as the raw value.
hard_load_from_soft_lines(soft, raw) == BuildRaw(soft_lines_spams(soft), raw)

\* What a call of _set leaves: the exception, the soft lines, the raw value
\* and _last_event.
Left(e, soft, raw, ev) == [err |-> e, soft |-> soft, raw |-> raw, ev |-> ev]

\* An exception leaves _set where it is raised: the soft lines stay as they
\* are at that statement.
SetRaises(e, soft, prev) == Left(e, soft, raw_value, last_event)

\* Lines 401-407: what _set leaves when the load gave hl and, for the soft
\* lines put back, again.
SetLoaded(hl, again, line, index, t) ==
    IF hl.err = "none"
    THEN Left("none", hl.soft, hl.raw,
              [line |-> line, index |-> index, tick |-> t])
    ELSE IF hl.err = "TextDoesNotFit"
    THEN Left(IF again.err = "none" THEN "TextDoesNotFit" ELSE again.err,
              again.soft, again.raw, last_event)
    ELSE Left(hl.err, hl.soft, raw_value, last_event)

\* Lines 400-405: the hard lines are loaded; if they do not fit the soft
\* lines are put back, loaded again, and the exception goes on.
SetLoads(soft, prev, line, index, t) ==
    SetLoaded(hard_load_from_soft_lines(soft, raw_value),
              hard_load_from_soft_lines(prev, raw_value), line, index, t)

\* Lines 394-398: a soft line longer than its hard lines takes one more.
SetGrows(c, soft, prev, line, index, t) ==
    LET cap == Capacity(c, line)
        pops == soft[Len(soft)] = <<>>
        soft1 == IF pops THEN DropLast(soft) ELSE soft
        spams == IF pops THEN DropLast(c.spams) ELSE c.spams
    IN IF line >= Len(soft) THEN SetRaises("IndexError", soft, prev)
       ELSE IF cap.err # "none" THEN SetRaises(cap.err, soft, prev)
       ELSE IF Len(soft[line + 1]) <= cap.v
       THEN SetLoads(soft, prev, line, index, t)
       ELSE IF line >= Len(spams) THEN SetRaises("IndexError", soft1, prev)
       ELSE SetLoads(soft1, prev, line, index, t)

\* Lines 350-358: ENTER.
SetEnter(c, soft, prev, line, index, insert, t) ==
    LET split == DropLast([InsertAt(soft, line + 1, From(soft[line + 1], index))
                              EXCEPT ![line + 1] = Upto(@, index)])
        soft1 == IF insert THEN split ELSE soft
        k == c.smap[line + 1] + c.spams[line + 1]
    IN IF insert /\ soft[Len(soft)] # <<>>
       THEN SetRaises("TextDoesNotFit", soft, prev)
       ELSE IF k >= Len(c.hidx) THEN SetRaises("IndexError", soft1, prev)
       ELSE SetGrows(c, soft1, prev, line, index, t)

\* Lines 359-385: the key goes to the end of the soft line; typed right
\* after the last cell of the line before, it goes to the end of that line
\* (index then holds a str, which equals no int: 0 - 2 here).
SetAtEnd(c, soft, prev, line0, index0, key, insert, t) ==
    LET merge == /\ index0 = 0 /\ line0 > 0
                 /\ last_event.line = line0 - 1
                 /\ last_event.index = Len(soft[line0]) - 1
                 /\ last_event.tick = t - 1
        line == IF merge THEN line0 - 1 ELSE line0
        index == IF merge THEN 0 - 2 ELSE index0
        soft1 == [soft EXCEPT ![line + 1] = Append(@, key)]
        cap == Capacity(c, line)
        old == soft1[line + 2]
        joined == SubSeq(soft1, 1, line + 1) \o SubSeq(soft1, line + 3, Len(soft1))
        eaten == IF old = <<>> THEN joined
                 ELSE [joined EXCEPT ![line + 1] = @ \o Tail(old)]
    IN IF cap.err # "none" THEN SetRaises(cap.err, soft1, prev)
       ELSE IF Len(soft1[line + 1]) <= cap.v
       THEN SetGrows(c, soft1, prev, line, index, t)
       ELSE IF insert
       THEN IF soft1[Len(soft1)] = <<>>
            THEN SetGrows(c, DropLast(soft1), prev, line, index, t)
            ELSE SetRaises("TextDoesNotFit", soft1, prev)
       ELSE IF line + 1 >= Len(soft1) THEN SetRaises("IndexError", soft1, prev)
       ELSE SetGrows(c, eaten, prev, line, index, t)

\* Lines 386-392: the key goes inside the soft line, or after its end.
SetInside(c, soft, prev, line, index, key, insert, t) ==
    LET dist == index - Len(soft[line + 1])
        inside == Upto(soft[line + 1], index) \o <<key>>
                      \o From(soft[line + 1], index + (IF insert THEN 0 ELSE 1))
        after == soft[line + 1] \o (IF insert THEN <<>> ELSE Spaces(dist))
                     \o <<key>>
    IN SetGrows(c, [soft EXCEPT ![line + 1] = IF dist < 0 THEN inside ELSE after],
                prev, line, index, t)

\* Lines 346-392 on the cached maps c; get_index_in_soft_line, lines
\* 296-315, gives the soft line and the index in it.
SetWith(c, hard_index, key, insert, t) ==
    LET prev == soft_lines
        h == hard_index \div Width
        offset == c.hmap[h + 1][2]
        line == c.hmap[h + 1][1]
        index == (hard_index % Width) + Width * Min2(offset, h)
        dist == index - Len(c.soft[line + 1])
    IN IF hard_index >= HardLines * Width
       THEN SetRaises("TextDoesNotFit", soft_lines, prev)
       ELSE IF h >= Len(c.hmap) THEN SetRaises("KeyError", c.soft, prev)
       ELSE IF key = "ENTER"
       THEN SetEnter(c, c.soft, prev, line, index, insert, t)
       ELSE IF dist = 0
       THEN SetAtEnd(c, c.soft, prev, line, index, key, insert, t)
       ELSE SetInside(c, c.soft, prev, line, index, key, insert, t)

\* Lines._set, lines 344-407, called at tick t.
set(hard_index, key, insert, t) ==
    SetWith(soft_lines_spams(soft_lines), hard_index, key, insert, t)

\* Editable.change with a printable key or ENTER, lines 531, 576-594, the
\* cursor at hard_index; in insertion mode TextDoesNotFit ends in the
\* OVERFILL event.
Typed(hard_index, key, insertion) ==
    LET left == set(hard_index, key, insertion, edit_tick + 1)
    IN /\ edit_tick < MaxTyped
       /\ edit_tick' = edit_tick + 1
       /\ lbefore' = <<soft_lines, raw_value>>
       /\ soft_lines' = left.soft
       /\ raw_value' = left.raw
       /\ last_event' = left.ev
       /\ lerr' = left.err
       /\ UNCHANGED <<evars, notlines>>

\* Editable.change with a key that only moves the cursor, lines 531, 541-549.
Moved ==
    /\ edit_tick < MaxTyped
    /\ edit_tick' = edit_tick + 1
    /\ lerr' = "none"
    /\ lbefore' = <<soft_lines, raw_value>>
    /\ UNCHANGED <<soft_lines, raw_value, last_event>>
    /\ UNCHANGED <<evars, notlines>>

LinesNext ==
    \/ \E i \in 0..(HardLines * Width), k \in LineKeyInputs, m \in BOOLEAN :
           Typed(i, k, m)
    \/ Moved

SpecLines == Init /\ [][LinesNext]_vars

\* C39 (as claimed): when insert or set has raised TextDoesNotFit, the soft
\* lines and the raw value are what they were before the call.
C39_RaiseRestores ==
    lerr = "TextDoesNotFit" => <<soft_lines, raw_value>> = lbefore

\* ------------------------------------------------------------ the Selector
\* SpecSelector: one Selector constructed with a list of option texts, with
\* or without a border, and the keys and clicks it is given.  The text plane
\* is not part of these sources: its pad_top is taken as the width of the
\* border (the row SelectorTransformer highlights, line 96), and a click
\* reaches the widget when it falls on one of the rows of its sprite.
MaxOptions == 3

OptionInputs == {"a", "b"}

OptionLists == UNION {[1..n -> OptionInputs] : n \in 1..MaxOptions}

SelectorKeyInputs == {"UP", "DOWN", "ENTER"}

InitSelector ==
    /\ DispatcherInit
    /\ PullInit
    /\ TickInit
    /\ TransformInit
    /\ WidgetsInit
    /\ SigwinchInit
    /\ ReactorInit
    /\ LinesInit
    /\ \E opts \in OptionLists, border \in BOOLEAN :
           SelectorConstructed(opts, border)

\* The keys of the dict options_values, lines 968-969: the option texts in
\* the order of their first occurrence.
RECURSIVE OptionKeys(_)
OptionKeys(opts) ==
    IF opts = <<>> THEN <<>>
    ELSE LET front == OptionKeys(SubSeq(opts, 1, Len(opts) - 1))
             x == opts[Len(opts)]
         IN IF x \in Range(front) THEN front ELSE Append(front, x)

\* self.options and self.num_options, lines 992-993.
options == OptionKeys(str_options)

\* The rows of the sprite, lines 972-976: one per option given, and two
\* more with a border.
SpriteRows == Len(str_options) + 2 * has_border

pad_top == has_border

\* Selector.change, lines 1001-1011.
change(key) ==
    /\ selected_row' =
           IF key = "UP" /\ selected_row > 0 THEN selected_row - 1
           ELSE IF key = "DOWN" /\ selected_row < Len(options) - 1
                THEN selected_row + 1
                ELSE selected_row
    /\ seldone' = IF key = "ENTER" THEN TRUE ELSE seldone
    /\ UNCHANGED <<str_options, has_border, selvalue>>
    /\ UNCHANGED <<evars, notsel>>

\* Selector._select_click, lines 1013-1014, with the event inner_click makes
\* for a click on row y of the sprite (lines 643-649).
select_click(y) ==
    /\ selected_row' = y - pad_top
    /\ UNCHANGED <<str_options, has_border, seldone, selvalue>>
    /\ UNCHANGED <<evars, notsel>>

\* Selector.value, lines 1025-1027: num_options is a dict over 0 ..
\* len(options) - 1.
ReadValue ==
    /\ selvalue' = IF selected_row \in 0..(Len(options) - 1)
                   THEN options[selected_row + 1]
                   ELSE "KeyError"
    /\ UNCHANGED <<str_options, has_border, selected_row, seldone>>
    /\ UNCHANGED <<evars, notsel>>

SelectorNext ==
    \/ \E key \in SelectorKeyInputs : change(key)
    \/ \E y \in 0..(SpriteRows - 1) : select_click(y)
    \/ ReadValue

SpecSelector == InitSelector /\ [][SelectorNext]_vars

\* C40 (as claimed): after any keys and clicks selected_row is within
\* 0 .. len(options) - 1, and what value gave when read is one of the options.
C40_RowInRange ==
    /\ selected_row \in 0..(Len(options) - 1)
    /\ selvalue \in Range(options) \cup {"none"}

====
